---- MODULE Spec2Model ----
(***************************************************************************)
(* Model of the PR analysis pipeline of backend/app: the risk scorer, the  *)
(* secret scanner, the four agents, the orchestrator (runner.py) and the   *)
(* comment publisher (github_client.py).                                   *)
(*                                                                         *)
(* Text is modelled by TLA+ strings; Ch(s, i) is the i-th character.       *)
(***************************************************************************)
EXTENDS Integers, Sequences, FiniteSets, TLC

VARIABLES
    factors,      \* risk_scorer: the factors dict handed to calculate_risk_score
    score,        \* risk_scorer: the value calculate_risk_score returned
    scorePc,      \* risk_scorer: "idle" | "input" | "scored"
    scanText,     \* secret_scanner: the diff or content handed to the scanner
    scanFile,     \* secret_scanner: the filename handed to the scanner
    scanMode,     \* secret_scanner: "none" | "diff" | "content", the entry point called
    detections,   \* secret_scanner: the list the entry point returned
    scanPc,       \* secret_scanner: "idle" | "input" | "chosen" | "scanned"
    comments,     \* GitHub: the issue comments of the pull request, oldest first
    jobs,         \* worker.py: the number of jobs enqueued so far
    pc,           \* per worker: the phase of the job it runs, see Phases
    pr_data,      \* per worker: the pr_data dict of the job
    pr_context,   \* per worker: the PRContext build_pr_context returned
    calls,        \* per worker: the agents whose run() was called, in call order
    raised,       \* per worker: the agents inside whose run() an exception was raised
    agent_results,\* per worker: run_agent_pipeline's agent_results dict
    agent_times,  \* per worker: run_agent_pipeline's agent_times dict
    analysis,     \* per worker: the PRAnalysis run_agent_pipeline returned
    existing,     \* per worker: post_pr_comment's existing_comment
    returned,     \* per worker: the dict process_pr_analysis returned
    propagated,   \* per worker: whether process_pr_analysis raised to its caller
    failed_in,    \* per worker: the phase whose exception ended the job
    log,          \* per worker: the records runner.py and worker.py logged for the job
    callName,     \* a service function called on its own: its name, "none" before
    callArgs,     \* the arguments of that call
    callResult,   \* the values the call returned, one per invocation
    objects       \* the instance fields of the service objects the calls ran on

scorerVars == <<factors, score, scorePc>>
scanVars == <<scanText, scanFile, scanMode, detections, scanPc>>
jobVars == <<pc, pr_data, pr_context, calls, raised, agent_results, agent_times,
             analysis, existing, returned, propagated, failed_in, log>>
pipelineVars == <<comments, jobs, jobVars>>
callVars == <<callName, callArgs, callResult, objects>>

vars == <<factors, score, scorePc, scanText, scanFile, scanMode, detections, scanPc,
          comments, jobs, pc, pr_data, pr_context, calls, raised, agent_results,
          agent_times, analysis, existing, returned, propagated, failed_in, log,
          callName, callArgs, callResult, objects>>

(***************************************************************************)
(* Bounds                                                                  *)
(***************************************************************************)
MaxCount == 1          \* largest value of a counting risk factor
MaxPatchLines == 2     \* most lines of a text handed to the secret scanner
NumWorkers == 2        \* worker processes of the queue
MaxRuns == 2           \* most jobs enqueued for the pull request
MaxOtherComments == 1  \* most comments other users write on the pull request

(***************************************************************************)
(* Generic helpers                                                         *)
(***************************************************************************)
Min(a, b) == IF a < b THEN a ELSE b
Max(a, b) == IF a > b THEN a ELSE b

\* dict.get(key, default)
Get(d, key, default) == IF key \in DOMAIN d THEN d[key] ELSE default

RECURSIVE SumSeq(_)
SumSeq(s) == IF s = <<>> THEN 0 ELSE Head(s) + SumSeq(Tail(s))

\* the concatenation of a list of lists
RECURSIVE Flatten(_)
Flatten(ss) == IF ss = <<>> THEN <<>> ELSE Head(ss) \o Flatten(Tail(ss))

\* len([x for x in s if P(x)])
CountIf(s, P(_)) == Cardinality({i \in DOMAIN s : P(s[i])})

NoFactors == [k \in {} |-> 0]

(***************************************************************************)
(* Text: strings, characters, and the str methods the code uses            *)
(***************************************************************************)
Ch(s, i) == SubSeq(s, i, i)

CharsOf(s) == {Ch(s, i) : i \in 1..Len(s)}

LowerAlpha == "abcdefghijklmnopqrstuvwxyz"
UpperAlpha == "ABCDEFGHIJKLMNOPQRSTUVWXYZ"
DigitChars == "0123456789"

LowerSet == CharsOf(LowerAlpha)
UpperSet == CharsOf(UpperAlpha)
DigitSet == CharsOf(DigitChars)
AlnumSet == LowerSet \cup UpperSet \cup DigitSet
\* \w
WordSet == AlnumSet \cup {"_"}
\* \s
SpaceSet == {" ", "\t", "\n", "\r", "\f"}

IndexIn(c, alphabet) == CHOOSE i \in 1..Len(alphabet) : Ch(alphabet, i) = c

LowerCh(c) == IF c \in UpperSet THEN Ch(LowerAlpha, IndexIn(c, UpperAlpha)) ELSE c
UpperCh(c) == IF c \in LowerSet THEN Ch(UpperAlpha, IndexIn(c, LowerAlpha)) ELSE c

\* str.lower()
RECURSIVE ToLower(_)
ToLower(s) == IF s = "" THEN "" ELSE LowerCh(Ch(s, 1)) \o ToLower(Tail(s))

\* str.startswith(prefix)
StartsWith(s, prefix) ==
    Len(s) >= Len(prefix) /\ SubSeq(s, 1, Len(prefix)) = prefix

\* str.endswith(suffix)
EndsWith(s, suffix) ==
    Len(s) >= Len(suffix) /\ SubSeq(s, Len(s) - Len(suffix) + 1, Len(s)) = suffix

\* sub in s
Contains(s, sub) ==
    \E i \in 1..(Len(s) - Len(sub) + 1) : SubSeq(s, i, i + Len(sub) - 1) = sub

\* str.strip()
RECURSIVE LStrip(_)
LStrip(s) == IF s # "" /\ Ch(s, 1) \in SpaceSet THEN LStrip(Tail(s)) ELSE s

RECURSIVE RStrip(_)
RStrip(s) ==
    IF s # "" /\ Ch(s, Len(s)) \in SpaceSet THEN RStrip(SubSeq(s, 1, Len(s) - 1)) ELSE s

Strip(s) == RStrip(LStrip(s))

\* str.split(sep) for a one-character separator
Split(s, sep) ==
    LET at == {i \in 1..Len(s) : Ch(s, i) = sep}
        \* the position of the k-th separator; 0 and Len(s)+1 bound the text
        Sep(k) == IF k = 0 THEN 0
                  ELSE IF k > Cardinality(at) THEN Len(s) + 1
                  ELSE CHOOSE p \in at : Cardinality({q \in at : q < p}) = k - 1
    IN  [k \in 1..(Cardinality(at) + 1) |-> SubSeq(s, Sep(k - 1) + 1, Sep(k) - 1)]

\* int(s) for a string of decimal digits
RECURSIVE ParseInt(_)
ParseInt(s) ==
    IF s = "" THEN 0
    ELSE 10 * ParseInt(SubSeq(s, 1, Len(s) - 1)) + (IndexIn(Ch(s, Len(s)), DigitChars) - 1)

(***************************************************************************)
(* Regular expressions (module re).  A pattern is a sequence of            *)
(* alternatives tried in order; an alternative is a sequence of items      *)
(* [set, min, max]: between min and max characters of the set, greedy,     *)
(* with backtracking.                                                      *)
(***************************************************************************)
Unbounded == 100000

\* an item matches a run of min..max characters that are in set (not in set when neg)
Item(set, min, max) == [set |-> set, neg |-> FALSE, min |-> min, max |-> max, end |-> FALSE]
NotItem(set, min, max) == [set |-> set, neg |-> TRUE, min |-> min, max |-> max, end |-> FALSE]
One(set) == Item(set, 1, 1)
Star(set) == Item(set, 0, Unbounded)
Plus(set) == Item(set, 1, Unbounded)
Opt(set) == Item(set, 0, 1)
\* [^...]+ and .+ (any character but a newline)
PlusNot(set) == NotItem(set, 1, Unbounded)
PlusAny == NotItem({"\n"}, 1, Unbounded)
\* $
EndAnchor == [set |-> {}, neg |-> FALSE, min |-> 0, max |-> 0, end |-> TRUE]

\* a literal string
Lit(str) == [i \in 1..Len(str) |-> One({Ch(str, i)})]
\* a literal string under (?i)
LitI(str) == [i \in 1..Len(str) |-> One({LowerCh(Ch(str, i)), UpperCh(Ch(str, i))})]

InItem(c, item) == (c \in item.set) # item.neg

\* the number of characters of s from pos on that the item accepts, at most max
RECURSIVE RunLen(_, _, _, _)
RunLen(s, pos, item, max) ==
    IF max = 0 \/ pos > Len(s) \/ ~InItem(Ch(s, pos), item) THEN 0
    ELSE 1 + RunLen(s, pos + 1, item, max - 1)

NoMatch == <<0>>

\* the match of items[k..] at pos: the position after each item, or NoMatch
RECURSIVE MatchItems(_, _, _, _)
RECURSIVE TryCount(_, _, _, _, _)
MatchItems(items, k, s, pos) ==
    IF k > Len(items) THEN <<>>
    ELSE IF items[k].end /\ pos <= Len(s) THEN NoMatch
    ELSE TryCount(items, k, s, pos, RunLen(s, pos, items[k], items[k].max))

TryCount(items, k, s, pos, n) ==
    IF n < items[k].min THEN NoMatch
    ELSE LET r == MatchItems(items, k + 1, s, pos + n)
         IN  IF r # NoMatch THEN <<pos + n>> \o r ELSE TryCount(items, k, s, pos, n - 1)

\* the position after a match that started at pos
MatchEnd(ends, pos) == IF ends = <<>> THEN pos ELSE ends[Len(ends)]

\* the text matched by items i..j of a match that started at pos
GroupText(s, pos, ends, i, j) ==
    SubSeq(s, (IF i = 1 THEN pos ELSE ends[i - 1]), ends[j] - 1)

\* pattern.match at a position: the first alternative that matches
RECURSIVE MatchAlts(_, _, _, _)
MatchAlts(alts, a, s, pos) ==
    IF a > Len(alts) THEN 0
    ELSE LET r == MatchItems(alts[a], 1, s, pos)
         IN  IF r # NoMatch THEN MatchEnd(r, pos) ELSE MatchAlts(alts, a + 1, s, pos)

\* pattern.finditer(s): the matched texts, left to right, not overlapping
RECURSIVE FindIter(_, _, _)
FindIter(alts, s, pos) ==
    IF pos > Len(s) + 1 THEN <<>>
    ELSE LET r == MatchAlts(alts, 1, s, pos)
         IN  IF r = 0 THEN FindIter(alts, s, pos + 1)
             ELSE <<SubSeq(s, pos, r - 1)>>
                  \o FindIter(alts, s, IF r = pos THEN pos + 1 ELSE r)

\* a match object: where it starts and the position after each item; None has start 0
NoneMatch == [start |-> 0, ends |-> <<>>]
Matched(m) == m.start # 0

\* re.match(items, s): the match at the start of s
ReMatch(items, s) ==
    LET r == MatchItems(items, 1, s, 1)
    IN  IF r = NoMatch THEN NoneMatch ELSE [start |-> 1, ends |-> r]

\* re.search(items, s): the leftmost match
RECURSIVE SearchFrom(_, _, _)
SearchFrom(items, s, pos) ==
    IF pos > Len(s) + 1 THEN NoneMatch
    ELSE LET r == MatchItems(items, 1, s, pos)
         IN  IF r = NoMatch THEN SearchFrom(items, s, pos + 1)
             ELSE [start |-> pos, ends |-> r]

ReSearch(items, s) == SearchFrom(items, s, 1)

\* match.group over items i..j
Group(s, m, i, j) == GroupText(s, m.start, m.ends, i, j)

(***************************************************************************)
(* services/risk_scorer.py                                                 *)
(***************************************************************************)
base_score == 0
max_score == 100

AdditionsThreshold == 1000
FilesThreshold == 20
DeletionsThreshold == 500

\* an element of factors['dependency_changes']: a dict or some other object
DepEntry(isdict, level) == [isdict |-> isdict, risk_level |-> level]

\* len([d for d in dependency_changes if isinstance(d, dict) and d.get('risk_level') == 'high'])
high_risk_deps(dependency_changes) ==
    CountIf(dependency_changes, LAMBDA d : d.isdict /\ d.risk_level = "high")

\* the sum of the per-factor points, before normalisation
RawScore(f) ==
    base_score
    + (IF Get(f, "secrets_count", 0) > 0 THEN 25 ELSE 0)
    + (IF Get(f, "total_additions", 0) > AdditionsThreshold THEN 10 ELSE 0)
    + (IF high_risk_deps(Get(f, "dependency_changes", <<>>)) > 0 THEN 15 ELSE 0)
    + (IF Get(f, "security_files_changed", 0) > 0 THEN 10 ELSE 0)
    + (IF Get(f, "large_files_changed", 0) > 0 THEN 10 ELSE 0)
    + (IF Get(f, "total_files", 0) > FilesThreshold THEN 5 ELSE 0)
    + (IF Get(f, "binary_files_changed", 0) > 0 THEN 5 ELSE 0)
    + (IF Get(f, "database_files_changed", 0) > 0 THEN 8 ELSE 0)
    + (IF Get(f, "security_config_files_changed", 0) > 0 THEN 12 ELSE 0)
    + (IF Get(f, "deployment_files_changed", 0) > 0 THEN 7 ELSE 0)
    + (IF Get(f, "large_deletions", 0) > DeletionsThreshold THEN 8 ELSE 0)

\* mutant: the normalisation to the 0-100 range is dropped
calculate_risk_score_unclamped(f) == RawScore(f)

\* RiskScorer.calculate_risk_score
calculate_risk_score(f) == Min(max_score, Max(0, RawScore(f)))

(***************************************************************************)
(* services/secret_scanner.py                                              *)
(***************************************************************************)
QuoteSpaceSet == {"'", "\""} \cup SpaceSet
SecretValueSet == AlnumSet \cup CharsOf("_-!@#$%^&*()")
UrlPartSet == AlnumSet \cup CharsOf("_.-")
TokenSet == AlnumSet \cup CharsOf("_-")

DatabaseUrlTail ==
    Lit("://") \o <<Plus(UrlPartSet), One({":"}), Plus(UrlPartSet), One({"@"}), Plus(UrlPartSet)>>

\* SecretScanner.patterns, in dict order
patterns == <<
    [name |-> "aws_access_key", description |-> "AWS Access Key ID",
     alts |-> << Lit("AKIA") \o <<Item(DigitSet \cup UpperSet, 16, 16)>> >>],
    [name |-> "aws_secret_key", description |-> "AWS Secret Access Key",
     alts |-> << <<Item(AlnumSet \cup CharsOf("/+="), 40, 40)>> >>],
    [name |-> "github_token", description |-> "GitHub Token",
     alts |-> << Lit("gh") \o <<One(CharsOf("pousr"))>> \o Lit("_") \o <<Item(WordSet, 36, 255)>> >>],
    [name |-> "slack_token", description |-> "Slack Token",
     alts |-> << Lit("xox") \o <<One(CharsOf("baprs"))>> \o Lit("-") \o <<Item(AlnumSet, 10, 48)>> >>],
    [name |-> "private_key", description |-> "Private Key",
     alts |-> << Lit("-----BEGIN ") \o <<Plus(UpperSet)>> \o Lit(" PRIVATE KEY-----") >>],
    [name |-> "api_key", description |-> "Generic API Key",
     alts |-> << LitI("api") \o <<Opt({"_", "-"})>> \o LitI("key")
                 \o <<Star(QuoteSpaceSet), One({":", "="}), Star(QuoteSpaceSet),
                      Item(TokenSet, 16, 128)>> >>],
    [name |-> "password", description |-> "Password",
     alts |-> << LitI("password")
                 \o <<Star(QuoteSpaceSet), One({":", "="}), Star(QuoteSpaceSet),
                      Item(SecretValueSet, 8, 128)>> >>],
    [name |-> "jwt_token", description |-> "JWT Token",
     alts |-> << Lit("eyJ") \o <<Star(TokenSet), One({"."}), Star(TokenSet),
                                 One({"."}), Star(TokenSet)>> >>],
    [name |-> "database_url", description |-> "Database Connection String",
     alts |-> << LitI("postgres") \o DatabaseUrlTail,
                 LitI("mysql") \o DatabaseUrlTail,
                 LitI("mongodb") \o DatabaseUrlTail >>],
    [name |-> "email_credentials", description |-> "Email with Password",
     alts |-> << <<Plus(AlnumSet \cup CharsOf("._%+-")), One({"@"}),
                   Plus(AlnumSet \cup CharsOf(".-")), One({"."}),
                   Item(LowerSet \cup UpperSet, 2, Unbounded), One({":"}),
                   Item(SecretValueSet, 6, Unbounded)>> >>]
>>

SecretDetection(pattern_type, filename, line_number, severity) ==
    [pattern_type |-> pattern_type, filename |-> filename,
     line_number |-> line_number, severity |-> severity]

scanner_binary_extensions ==
    {".png", ".jpg", ".jpeg", ".gif", ".pdf", ".zip", ".tar", ".gz",
     ".exe", ".dll", ".so", ".dylib", ".bin", ".dat", ".db"}

\* SecretScanner._is_binary_file
scanner_is_binary_file(filename) ==
    \E ext \in scanner_binary_extensions : EndsWith(ToLower(filename), ext)

safe_markers ==
    {"example", "test", "mock", "fake", "dummy", "placeholder",
     "YOUR_API_KEY", "INSERT_KEY_HERE", "REPLACE_WITH",
     "xxx", "yyy", "zzz"}

\* SecretScanner._is_safe_line
is_safe_line(rawline, filename) ==
    LET line == Strip(rawline) IN
    \/ line = ""
    \/ EndsWith(filename, ".py") /\ StartsWith(line, "#")
    \/ /\ \E e \in {".js", ".ts", ".java", ".go", ".c", ".cpp"} : EndsWith(filename, e)
       /\ StartsWith(line, "//")
    \/ StartsWith(line, "/*") \/ StartsWith(line, "*") \/ StartsWith(line, "*/")
    \/ EndsWith(filename, ".md") \/ EndsWith(filename, ".rst")
    \/ \E marker \in safe_markers : Contains(ToLower(line), marker)

false_positives ==
    {"password123", "apikey123", "secret123",
     "your_api_key", "your_password", "your_secret"}

\* SecretScanner._validate_detection
validate_detection(pattern_name, match, line, filename) ==
    /\ ToLower(match) \notin false_positives
    /\ pattern_name = "aws_secret_key" =>
          /\ \E i \in 1..Len(match) : Ch(match, i) \in UpperSet
          /\ \E i \in 1..Len(match) : Ch(match, i) \in LowerSet
          /\ \E i \in 1..Len(match) : Ch(match, i) \in DigitSet
    /\ pattern_name = "jwt_token" => Len(Split(match, ".")) = 3
    /\ Contains(ToLower(filename), "test") =>
          ~ \E tp \in {"test_", "mock_", "fake_", "example_"} : Contains(ToLower(match), tp)

high_severity ==
    {"aws_access_key", "aws_secret_key", "private_key", "database_url", "github_token"}

\* mutant: every pattern is of high severity
get_severity_always_high(pattern_name) == "high"

\* SecretScanner._get_severity
get_severity(pattern_name) ==
    IF pattern_name \in high_severity THEN "high" ELSE "medium"

\* the detections of one pattern on one line: one per validated match
PatternDetections(p, content, filename, line_num) ==
    LET valid == SelectSeq(FindIter(p.alts, content, 1),
                           LAMBDA m : validate_detection(p.name, m, content, filename))
    IN  [i \in 1..Len(valid) |->
            SecretDetection(p.description, filename, line_num, get_severity(p.name))]

\* the loop over compiled_patterns for one line
RECURSIVE LineDetections(_, _, _, _)
LineDetections(k, content, filename, line_num) ==
    IF k > Len(patterns) THEN <<>>
    ELSE PatternDetections(patterns[k], content, filename, line_num)
         \o LineDetections(k + 1, content, filename, line_num)

MaxContentLen == 1000000

\* the loop of scan_content over enumerate(lines, 1)
RECURSIVE ScanContentLines(_, _, _)
ScanContentLines(lines, i, filename) ==
    IF i > Len(lines) THEN <<>>
    ELSE (IF is_safe_line(lines[i], filename) THEN <<>>
          ELSE LineDetections(1, lines[i], filename, i))
         \o ScanContentLines(lines, i + 1, filename)

\* SecretScanner.scan_content
scan_content(content, filename) ==
    IF scanner_is_binary_file(filename) \/ Len(content) > MaxContentLen THEN <<>>
    ELSE ScanContentLines(Split(content, "\n"), 1, filename)

\* re.search(r'\+(\d+)', line)
HunkPattern == <<One({"+"}), Plus(DigitSet)>>

\* the line counter after a hunk header
HunkLineNum(line, line_num) ==
    LET m == ReSearch(HunkPattern, line)
    IN  IF Matched(m) THEN ParseInt(Group(line, m, 2, 2)) - 1 ELSE line_num

\* the loop of scan_diff over the lines, line_num being the running counter
RECURSIVE ScanDiffLines(_, _, _, _)
ScanDiffLines(lines, i, line_num, filename) ==
    IF i > Len(lines) THEN <<>>
    ELSE LET line == lines[i] IN
         IF StartsWith(line, "@@")
         THEN ScanDiffLines(lines, i + 1, HunkLineNum(line, line_num), filename)
         ELSE IF StartsWith(line, "+") /\ ~StartsWith(line, "+++")
         THEN (IF is_safe_line(Tail(line), filename) THEN <<>>
               ELSE LineDetections(1, Tail(line), filename, line_num + 1))
              \o ScanDiffLines(lines, i + 1, line_num + 1, filename)
         ELSE IF ~StartsWith(line, "-")
         THEN ScanDiffLines(lines, i + 1, line_num + 1, filename)
         ELSE ScanDiffLines(lines, i + 1, line_num, filename)

\* SecretScanner.scan_diff
scan_diff(diff_content, filename) ==
    IF scanner_is_binary_file(filename) THEN <<>>
    ELSE ScanDiffLines(Split(diff_content, "\n"), 1, 0, filename)

(***************************************************************************)
(* services/dependency_scanner.py                                          *)
(***************************************************************************)
None == "<None>"

\* the truth value of an Optional[str]
Truthy(v) == v # None /\ v # ""

EmptyDict == [k \in {} |-> ""]

\* a set as a list, in the unspecified iteration order of a Python set
RECURSIVE SetToSeq(_)
SetToSeq(S) ==
    IF S = {} THEN <<>>
    ELSE LET x == CHOOSE y \in S : TRUE IN <<x>> \o SetToSeq(S \ {x})

DependencyChange(package, old_version, new_version, change_type, risk_level) ==
    [package |-> package, old_version |-> old_version, new_version |-> new_version,
     change_type |-> change_type, risk_level |-> risk_level]

high_risk_packages ==
    {"cryptography", "pyjwt", "requests", "urllib3", "flask", "django",
     "sqlalchemy", "psycopg2", "pymongo", "redis", "celery",
     "express", "axios", "request", "lodash", "moment", "jquery",
     "react", "vue", "angular", "webpack", "babel",
     "openssl", "ssh", "ssl", "tls", "oauth", "jwt"}

security_keywords == {"auth", "crypto", "security", "ssl", "tls", "jwt", "oauth"}

\* mutant: the list of high-risk packages is not consulted
assess_package_risk_keywords_only(package, change_type) ==
    LET package_lower == ToLower(package) IN
    IF \E keyword \in security_keywords : Contains(package_lower, keyword) THEN "medium"
    ELSE IF change_type = "downgraded" THEN "medium"
    ELSE "low"

\* DependencyScanner._assess_package_risk
assess_package_risk(package, change_type) ==
    LET package_lower == ToLower(package) IN
    IF \E risk_pkg \in high_risk_packages : Contains(package_lower, risk_pkg) THEN "high"
    ELSE IF \E keyword \in security_keywords : Contains(package_lower, keyword) THEN "medium"
    ELSE IF change_type = "downgraded" THEN "medium"
    ELSE "low"

\* str.isdigit()
IsDigit(x) == x # "" /\ \A i \in 1..Len(x) : Ch(x, i) \in DigitSet

\* [int(x) for x in version.split('.') if x.isdigit()]
VersionParts(version) ==
    LET digits == SelectSeq(Split(version, "."), IsDigit)
    IN  [i \in 1..Len(digits) |-> ParseInt(digits[i])]

\* parts.extend([0] * (max_len - len(parts)))
PadZeros(parts, max_len) ==
    [i \in 1..max_len |-> IF i <= Len(parts) THEN parts[i] ELSE 0]

\* a < b for two lists of integers
RECURSIVE ListLess(_, _)
ListLess(a, b) ==
    IF a = <<>> THEN b # <<>>
    ELSE IF b = <<>> THEN FALSE
    ELSE IF Head(a) # Head(b) THEN Head(a) < Head(b)
    ELSE ListLess(Tail(a), Tail(b))

\* mutant: the shorter list of components is not padded with zeros
determine_version_change_type_unpadded(old_version, new_version) ==
    LET old_parts == VersionParts(old_version)
        new_parts == VersionParts(new_version)
    IN  IF ListLess(old_parts, new_parts) THEN "upgraded"
        ELSE IF ListLess(new_parts, old_parts) THEN "downgraded"
        ELSE "modified"

\* DependencyScanner._determine_version_change_type
determine_version_change_type(old_version, new_version) ==
    LET old0 == VersionParts(old_version)
        new0 == VersionParts(new_version)
        max_len == Max(Len(old0), Len(new0))
        old_parts == PadZeros(old0, max_len)
        new_parts == PadZeros(new0, max_len)
    IN  IF ListLess(old_parts, new_parts) THEN "upgraded"
        ELSE IF ListLess(new_parts, old_parts) THEN "downgraded"
        ELSE "modified"

\* re.match(r'^([a-zA-Z0-9_-]+)([><=~!]+)(.+)$', line)
PackageSpecPattern == <<Plus(TokenSet), Plus(CharsOf("><=~!")), PlusAny, EndAnchor>>
\* re.match(r'^[a-zA-Z0-9_-]+$', line)
PackageNamePattern == <<Plus(TokenSet), EndAnchor>>

\* the loop of _parse_python_packages, packages being the dict built so far
RECURSIVE ParsePackagesFrom(_, _, _)
ParsePackagesFrom(lines, i, packages) ==
    IF i > Len(lines) THEN packages
    ELSE LET line == Strip(lines[i])
             m == ReMatch(PackageSpecPattern, line)
         IN  IF line = "" \/ StartsWith(line, "#")
             THEN ParsePackagesFrom(lines, i + 1, packages)
             ELSE IF Matched(m)
             THEN ParsePackagesFrom(lines, i + 1,
                      (Group(line, m, 1, 1) :> Strip(Group(line, m, 3, 3))) @@ packages)
             ELSE IF Matched(ReMatch(PackageNamePattern, line))
             THEN ParsePackagesFrom(lines, i + 1, (line :> "latest") @@ packages)
             ELSE ParsePackagesFrom(lines, i + 1, packages)

\* DependencyScanner._parse_python_packages
parse_python_packages(lines) == ParsePackagesFrom(lines, 1, EmptyDict)

NoFile == [filename |-> None, status |-> None, additions |-> 0, deletions |-> 0,
           changes |-> 0, patch |-> None]

\* next((f for f in ctx.files if f.filename == filename), None)
FindFile(ctx, filename) ==
    LET idx == {i \in 1..Len(ctx.files) : ctx.files[i].filename = filename}
    IN  IF idx = {} THEN NoFile
        ELSE ctx.files[CHOOSE i \in idx : \A j \in idx : i <= j]

\* not pr_file or not pr_file.patch
NoPatch(pr_file) == pr_file = NoFile \/ ~Truthy(pr_file.patch)

IsAddedLine(line) == StartsWith(line, "+") /\ ~StartsWith(line, "+++")
IsRemovedLine(line) == StartsWith(line, "-") /\ ~StartsWith(line, "---")

\* line[1:].strip() for every line kept
StripBodies(lines) == [i \in 1..Len(lines) |-> Strip(Tail(lines[i]))]

\* the change reported for one package of all_packages
PackageChange(package, removed_packages, added_packages) ==
    LET old_version == Get(removed_packages, package, None)
        new_version == Get(added_packages, package, None)
    IN  IF Truthy(old_version) /\ Truthy(new_version)
        THEN LET change_type == determine_version_change_type(old_version, new_version)
             IN  <<DependencyChange(package, old_version, new_version, change_type,
                                    assess_package_risk(package, change_type))>>
        ELSE IF Truthy(new_version) /\ ~Truthy(old_version)
        THEN <<DependencyChange(package, None, new_version, "added",
                                assess_package_risk(package, "added"))>>
        ELSE IF Truthy(old_version) /\ ~Truthy(new_version)
        THEN <<DependencyChange(package, old_version, None, "removed",
                                assess_package_risk(package, "removed"))>>
        ELSE <<>>

RECURSIVE PackageChanges(_, _, _)
PackageChanges(all_packages, removed_packages, added_packages) ==
    IF all_packages = <<>> THEN <<>>
    ELSE PackageChange(Head(all_packages), removed_packages, added_packages)
         \o PackageChanges(Tail(all_packages), removed_packages, added_packages)

\* DependencyScanner._analyze_python_requirements
analyze_python_requirements(filename, content, ctx) ==
    LET pr_file == FindFile(ctx, filename) IN
    IF NoPatch(pr_file) THEN <<>>
    ELSE LET lines == Split(pr_file.patch, "\n")
             added_lines == StripBodies(SelectSeq(lines, IsAddedLine))
             removed_lines ==
                 StripBodies(SelectSeq(lines, LAMBDA l : ~IsAddedLine(l) /\ IsRemovedLine(l)))
             added_packages == parse_python_packages(added_lines)
             removed_packages == parse_python_packages(removed_lines)
             all_packages == SetToSeq(DOMAIN added_packages \cup DOMAIN removed_packages)
         IN  PackageChanges(all_packages, removed_packages, added_packages)

\* the changes of a handler that reports added lines only: Pattern is searched in
\* every line that Wanted accepts; item g1 is the package group, items g2..g3 the
\* version group
AddedOnlyChanges(lines, Wanted(_), pattern, g1, g2, g3, Kept(_)) ==
    Flatten([i \in 1..Len(lines) |->
        LET line == lines[i]
            m == ReSearch(pattern, line)
        IN  IF Wanted(line) /\ Matched(m) /\ Kept(Group(line, m, g1, g1))
            THEN <<DependencyChange(Group(line, m, g1, g1), None, Group(line, m, g2, g3),
                                    "added",
                                    assess_package_risk(Group(line, m, g1, g1), "added"))>>
            ELSE <<>>])

\* re.search(r'"([^"]+)":\s*"([^"]+)"', line)
PackageJsonPattern ==
    <<One({"\""}), PlusNot({"\""}), One({"\""}), One({":"}), Star(SpaceSet),
      One({"\""}), PlusNot({"\""}), One({"\""})>>

\* DependencyScanner._analyze_package_json
analyze_package_json(filename, content, ctx) ==
    LET pr_file == FindFile(ctx, filename) IN
    IF NoPatch(pr_file) THEN <<>>
    ELSE AddedOnlyChanges(Split(pr_file.patch, "\n"),
             LAMBDA l : StartsWith(l, "+") /\ Contains(l, "\"") /\ Contains(l, ":"),
             PackageJsonPattern, 2, 7, 7,
             LAMBDA package : ~StartsWith(package, "_") /\ ~Contains(package, "/"))

\* re.search(r'([a-zA-Z0-9_-]+)\s*=\s*"([^"]+)"', line)
PipfilePattern ==
    <<Plus(TokenSet), Star(SpaceSet), One({"="}), Star(SpaceSet),
      One({"\""}), PlusNot({"\""}), One({"\""})>>

\* DependencyScanner._analyze_python_pipfile
analyze_python_pipfile(filename, content, ctx) ==
    LET pr_file == FindFile(ctx, filename) IN
    IF NoPatch(pr_file) THEN <<>>
    ELSE AddedOnlyChanges(Split(pr_file.patch, "\n"),
             LAMBDA l : StartsWith(l, "+") /\ Contains(l, "="),
             PipfilePattern, 1, 6, 6, LAMBDA package : TRUE)

\* re.search(r'require\s+([^\s]+)\s+(v[^\s]+)', line)
GoModPattern ==
    Lit("require") \o <<Plus(SpaceSet), PlusNot(SpaceSet), Plus(SpaceSet),
                        One({"v"}), PlusNot(SpaceSet)>>

\* DependencyScanner._analyze_go_mod
analyze_go_mod(filename, content, ctx) ==
    LET pr_file == FindFile(ctx, filename) IN
    IF NoPatch(pr_file) THEN <<>>
    ELSE AddedOnlyChanges(Split(pr_file.patch, "\n"),
             LAMBDA l : StartsWith(l, "+") /\ Contains(l, "require"),
             GoModPattern, 9, 11, 12, LAMBDA package : TRUE)

\* mutant: a file of no supported format is read as a requirements file
analyze_dependency_file_any_manifest(filename, content, ctx) ==
    IF filename = "package.json" THEN analyze_package_json(filename, content, ctx)
    ELSE IF filename \in {"Pipfile", "pyproject.toml"}
    THEN analyze_python_pipfile(filename, content, ctx)
    ELSE IF filename \in {"go.mod", "go.sum"} THEN analyze_go_mod(filename, content, ctx)
    ELSE analyze_python_requirements(filename, content, ctx)

\* DependencyScanner.analyze_dependency_file
analyze_dependency_file(filename, content, ctx) ==
    IF EndsWith(filename, "requirements.txt") \/ EndsWith(filename, "requirements-dev.txt")
    THEN analyze_python_requirements(filename, content, ctx)
    ELSE IF filename = "package.json" THEN analyze_package_json(filename, content, ctx)
    ELSE IF filename \in {"Pipfile", "pyproject.toml"}
    THEN analyze_python_pipfile(filename, content, ctx)
    ELSE IF filename \in {"go.mod", "go.sum"} THEN analyze_go_mod(filename, content, ctx)
    ELSE <<>>

(***************************************************************************)
(* services/diff_parser.py                                                 *)
(***************************************************************************)
\* the first index at or after from where sub occurs in s, or 0
FirstIndex(s, sub, from) ==
    LET at == {i \in from..(Len(s) - Len(sub) + 1) : SubSeq(s, i, i + Len(sub) - 1) = sub}
    IN  IF at = {} THEN 0 ELSE CHOOSE i \in at : \A j \in at : i <= j

\* a pattern with one capturing group: the alternatives in the order the
\* regex engine tries them, group being the item of the capturing group
DefPattern(keyword) ==
    [items |-> <<Star(SpaceSet)>> \o Lit(keyword)
               \o <<Plus(SpaceSet), Plus(WordSet), Star(SpaceSet), One({"("})>>,
     group |-> Len(keyword) + 3]

\* r'^\s*(?:pub\s+)?fn\s+(\w+)\s*\('
PubFnPattern ==
    [items |-> <<Star(SpaceSet)>> \o Lit("pub") \o <<Plus(SpaceSet)>> \o Lit("fn")
               \o <<Plus(SpaceSet), Plus(WordSet), Star(SpaceSet), One({"("})>>,
     group |-> 9]

\* DiffParser.__init__: self.function_patterns, keyed by language name; the
\* patterns of javascript, java, cpp and c are left out
function_patterns ==
    [python |-> <<DefPattern("def")>>,
     go |-> <<DefPattern("func")>>,
     rust |-> <<PubFnPattern, DefPattern("fn")>>]

\* a DiffParser after construction
DiffParser == [function_patterns |-> function_patterns]

\* re.search(pattern, line).group(1) for a pattern anchored with ^, or ""
RECURSIVE FunctionName(_, _, _)
FunctionName(alts, a, line) ==
    IF a > Len(alts) THEN ""
    ELSE LET m == ReMatch(alts[a].items, line)
         IN  IF Matched(m) THEN Group(line, m, alts[a].group, alts[a].group)
             ELSE FunctionName(alts, a + 1, line)

\* DiffParser._check_function_change: file_info after the call
check_function_change(self, line, file_info, change_type) ==
    LET filename == file_info.filename
        parts == Split(filename, ".")
        ext == IF Contains(filename, ".") THEN parts[Len(parts)] ELSE ""
    IN  IF ext \notin DOMAIN self.function_patterns THEN file_info
        ELSE LET function_name == FunctionName(self.function_patterns[ext], 1, line)
                 names == {file_info.functions_changed[i].name :
                              i \in DOMAIN file_info.functions_changed}
             IN  IF function_name = "" \/ function_name \in names THEN file_info
                 ELSE [file_info EXCEPT !.functions_changed =
                          Append(@, [name |-> function_name,
                                     change_type |-> change_type,
                                     line |-> Strip(line)])]

\* re.search(r'diff --git a/(.*?) b/(.*?)$', line).group(2), or None
FileMatch(line) ==
    LET p == FirstIndex(line, "diff --git a/", 1)
        q == IF p = 0 THEN 0 ELSE FirstIndex(line, " b/", p + 13)
    IN  IF q = 0 THEN None ELSE SubSeq(line, q + 3, Len(line))

\* r'@@ -(\d+)(?:,(\d+))? \+(\d+)(?:,(\d+))? @@': the alternatives in the order
\* of backtracking, with the items of the four groups (0: the group is None)
HunkAlt(old_count, new_count) ==
    LET head == Lit("@@ -") \o <<Plus(DigitSet)>>
        oc == IF old_count THEN <<One({","}), Plus(DigitSet)>> ELSE <<>>
        mid == Lit(" +") \o <<Plus(DigitSet)>>
        nc == IF new_count THEN <<One({","}), Plus(DigitSet)>> ELSE <<>>
    IN  [items |-> head \o oc \o mid \o nc \o Lit(" @@"),
         groups |-> <<5,
                      IF old_count THEN 7 ELSE 0,
                      Len(head) + Len(oc) + 3,
                      IF new_count THEN Len(head) + Len(oc) + 5 ELSE 0>>]

HunkAlts == <<HunkAlt(TRUE, TRUE), HunkAlt(TRUE, FALSE),
              HunkAlt(FALSE, TRUE), HunkAlt(FALSE, FALSE)>>

\* hunk_match.groups() of the leftmost match from pos on; <<>> when hunk_match
\* is None
RECURSIVE HunkGroups(_, _, _)
HunkGroups(line, pos, a) ==
    IF pos > Len(line) THEN <<>>
    ELSE IF a > Len(HunkAlts) THEN HunkGroups(line, pos + 1, 1)
    ELSE LET r == MatchItems(HunkAlts[a].items, 1, line, pos)
         IN  IF r = NoMatch THEN HunkGroups(line, pos, a + 1)
             ELSE [g \in 1..4 |->
                      IF HunkAlts[a].groups[g] = 0 THEN None
                      ELSE GroupText(line, pos, r, HunkAlts[a].groups[g],
                                     HunkAlts[a].groups[g])]

\* current_file['hunk_info'] = groups
SetKey(d, key, value) ==
    [k \in DOMAIN d \cup {key} |-> IF k = key THEN value ELSE d[k]]

\* one iteration of the loop of parse_diff; st holds files_changed, the index
\* current of current_file in it (0: None) and the two totals
ParseLine(self, line, st) ==
    IF StartsWith(line, "diff --git")
    THEN LET filename == FileMatch(line)
         IN  IF filename = None THEN st
             ELSE [st EXCEPT
                     !.files_changed =
                         Append(@, [filename |-> filename, additions |-> 0,
                                    deletions |-> 0, functions_changed |-> <<>>,
                                    large_changes |-> FALSE]),
                     !.current = Len(st.files_changed) + 1]
    ELSE IF StartsWith(line, "@@") /\ st.current # 0
    THEN LET groups == HunkGroups(line, 1, 1)
         IN  IF groups = <<>> THEN st
             ELSE [st EXCEPT !.files_changed[st.current] = SetKey(@, "hunk_info", groups)]
    ELSE IF StartsWith(line, "+") /\ ~StartsWith(line, "+++") /\ st.current # 0
    THEN [st EXCEPT
            !.files_changed[st.current] =
                check_function_change(self, Tail(line),
                    [@ EXCEPT !.additions = @ + 1], "added"),
            !.total_additions = @ + 1]
    ELSE IF StartsWith(line, "-") /\ ~StartsWith(line, "---") /\ st.current # 0
    THEN [st EXCEPT
            !.files_changed[st.current] =
                check_function_change(self, Tail(line),
                    [@ EXCEPT !.deletions = @ + 1], "removed"),
            !.total_deletions = @ + 1]
    ELSE st

\* the loop of parse_diff over lines lo..hi, halved so that long diffs do not
\* nest deeply
RECURSIVE ParseLines(_, _, _, _, _)
ParseLines(self, lines, lo, hi, st) ==
    IF lo > hi THEN st
    ELSE IF lo = hi THEN ParseLine(self, lines[lo], st)
    ELSE CHOOSE r \in {ParseLines(self, lines, ((lo + hi) \div 2) + 1, hi, half) :
                          half \in {ParseLines(self, lines, lo, (lo + hi) \div 2, st)}} : TRUE

\* the hotspot entry of a file, or no entry
Hotspot(file_info) ==
    LET total_changes == file_info.additions + file_info.deletions
        functions_count == Len(file_info.functions_changed)
        size == IF total_changes > 200
                THEN [score |-> 3, reasons |->
                        <<"Large change (" \o ToString(total_changes) \o " lines)">>]
                ELSE IF total_changes > 100
                THEN [score |-> 2, reasons |->
                        <<"Medium change (" \o ToString(total_changes) \o " lines)">>]
                ELSE [score |-> 0, reasons |-> <<>>]
        funcs == IF functions_count > 5
                 THEN [score |-> 2, reasons |->
                        <<"Many functions changed (" \o ToString(functions_count) \o ")">>]
                 ELSE IF functions_count > 2
                 THEN [score |-> 1, reasons |->
                        <<"Multiple functions changed (" \o ToString(functions_count) \o ")">>]
                 ELSE [score |-> 0, reasons |-> <<>>]
        core == IF \E e \in {".py", ".js", ".java", ".go"} : EndsWith(file_info.filename, e)
                THEN 1 ELSE 0
        risk_score == size.score + funcs.score + core
    IN  IF risk_score >= 3
        THEN <<[filename |-> file_info.filename, risk_score |-> risk_score,
                reasons |-> size.reasons \o funcs.reasons,
                total_changes |-> total_changes,
                functions_changed |-> functions_count]>>
        ELSE <<>>

\* a variant that sorts ascending and then reverses, which turns equal scores
\* around
identify_hotspots_reversed(files_changed) ==
    LET hotspots == Flatten([i \in 1..Len(files_changed) |-> Hotspot(files_changed[i])])
        ascending == Flatten([k \in 1..4 |-> SelectSeq(hotspots, LAMBDA h : h.risk_score = 2 + k)])
    IN  [i \in 1..Len(ascending) |-> ascending[Len(ascending) + 1 - i]]

\* DiffParser._identify_hotspots: sorted(hotspots, key=risk_score, reverse=True),
\* a stable sort
identify_hotspots(files_changed) ==
    LET hotspots == Flatten([i \in 1..Len(files_changed) |-> Hotspot(files_changed[i])])
    IN  Flatten([k \in 1..4 |-> SelectSeq(hotspots, LAMBDA h : h.risk_score = 7 - k)])

\* the end of parse_diff: the large files are marked and the dict is built
ParseResult(st) ==
    LET files_changed ==
            [i \in 1..Len(st.files_changed) |->
                [st.files_changed[i] EXCEPT !.large_changes =
                    st.files_changed[i].additions + st.files_changed[i].deletions > 100]]
    IN  [files_changed |-> files_changed,
         total_additions |-> st.total_additions,
         total_deletions |-> st.total_deletions,
         total_files |-> Len(files_changed),
         large_files |-> SelectSeq(files_changed, LAMBDA f : f.large_changes),
         hotspots |-> identify_hotspots(files_changed)]

\* parse_diff from the split lines on
parse_diff_lines(self, lines) ==
    CHOOSE r \in {ParseResult(st) :
                     st \in {ParseLines(self, lines, 1, Len(lines),
                                        [files_changed |-> <<>>, current |-> 0,
                                         total_additions |-> 0,
                                         total_deletions |-> 0])}} : TRUE

\* mutant: the parser keeps the files of its earlier calls
parse_diff_accumulating(self, lines) ==
    CHOOSE r \in
        {[self |-> SetKey(self, "files_changed", kept \o value.files_changed),
          value |-> [value EXCEPT !.files_changed = kept \o @,
                                  !.total_files = Len(kept) + @]] :
            value \in {parse_diff_lines(self, lines)},
            kept \in {IF "files_changed" \in DOMAIN self
                      THEN self.files_changed ELSE <<>>}} : TRUE

\* DiffParser.parse_diff on diff_content.split('\n'): the parser after the
\* call and the dict returned
parse_diff(self, lines) ==
    [self |-> self, value |-> parse_diff_lines(self, lines)]

(***************************************************************************)
(* models/schemas.py                                                       *)
(***************************************************************************)
\* PRFileModel; Config.use_enum_values makes status the plain string
PRFileModel(filename, status, additions, deletions, changes, patch) ==
    [filename |-> filename, status |-> status, additions |-> additions,
     deletions |-> deletions, changes |-> changes, patch |-> patch]

\* AgentResult (execution_time_ms keeps its default 0)
AgentResult(name, payload, warnings) ==
    [name |-> name, payload |-> payload, warnings |-> warnings,
     execution_time_ms |-> 0]

\* sum(f.additions for f in ctx.files)
TotalAdditions(ctx) == SumSeq([i \in 1..Len(ctx.files) |-> ctx.files[i].additions])
\* sum(f.deletions for f in ctx.files)
TotalDeletions(ctx) == SumSeq([i \in 1..Len(ctx.files) |-> ctx.files[i].deletions])

\* any(pattern in s for pattern in subs)
ContainsAny(s, subs) == \E p \in subs : Contains(s, p)

\* sep.join(parts)
RECURSIVE Join(_, _)
Join(parts, sep) ==
    IF Len(parts) = 0 THEN ""
    ELSE IF Len(parts) = 1 THEN parts[1]
    ELSE parts[1] \o sep \o Join(Tail(parts), sep)

(***************************************************************************)
(* agents/risk_security.py                                                 *)
(*                                                                         *)
(* An exception raised inside a stage is an input of the stage: fault.at   *)
(* names the step of run() that raises ("none" when no step does) and      *)
(* fault.manifests the dependency files whose analysis raises inside the   *)
(* dependency scanner.                                                     *)
(***************************************************************************)
NoFault == [at |-> "none", manifests |-> {}]

\* str(e) of the exception a fault raises
ErrorText(at) == "failure in " \o at

security_patterns ==
    {"security", "sec_", "crypto", "encryption", "decrypt", "certificate", "cert",
     "ssl", "tls", "key", "token", "password", "passwd", "secret", "private"}

is_security_file(filename) == ContainsAny(ToLower(filename), security_patterns)

auth_patterns ==
    {"auth", "login", "logout", "signin", "signup", "permission", "role", "access",
     "oauth", "jwt", "session", "middleware/auth", "guards/", "decorators/auth"}

is_auth_file(filename) == ContainsAny(ToLower(filename), auth_patterns)

config_patterns ==
    {".env", ".ini", ".conf", ".config", "settings", ".yml", ".yaml", ".json",
     "docker", "makefile"}

is_config_file(filename) == ContainsAny(ToLower(filename), config_patterns)

db_patterns ==
    {"migration", "migrate", "schema", "database", "db_", ".sql", "models/",
     "entity/", "repository/"}

is_database_file(filename) == ContainsAny(ToLower(filename), db_patterns)

deploy_patterns ==
    {"dockerfile", "docker-compose", ".github/workflows", "deploy", "deployment",
     "terraform", ".tf", "kubernetes", "k8s", "helm", "ansible"}

is_deployment_file(filename) == ContainsAny(ToLower(filename), deploy_patterns)

binary_extensions ==
    {".png", ".jpg", ".jpeg", ".gif", ".pdf", ".zip", ".tar", ".gz",
     ".exe", ".dll", ".so", ".dylib", ".bin"}

is_binary_file(filename) ==
    \E ext \in binary_extensions : EndsWith(ToLower(filename), ext)

\* RiskSecurityAgent._scan_for_secrets
scan_for_secrets(ctx) ==
    Flatten([i \in 1..Len(ctx.files) |->
        LET file == ctx.files[i] IN
        IF is_binary_file(file.filename) \/ ~Truthy(file.patch) THEN <<>>
        ELSE scan_diff(file.patch, file.filename)])
    \o
    Flatten([i \in 1..Len(ctx.dependency_files) |->
        LET filename == ctx.dependency_files[i][1]
            content == ctx.dependency_files[i][2]
        IN  IF content = "" THEN <<>> ELSE scan_content(content, filename)])

\* RiskSecurityAgent._analyze_dependency_changes: a raise of the scanner is
\* caught per file and only logged, the file contributes no change
analyze_dependency_changes(ctx, raising) ==
    Flatten([i \in 1..Len(ctx.dependency_files) |->
        LET filename == ctx.dependency_files[i][1]
            content == ctx.dependency_files[i][2]
        IN  IF content = "" THEN <<>>
            ELSE IF filename \in raising THEN <<>>
            ELSE analyze_dependency_file(filename, content, ctx)])

security_config_keywords ==
    {"password", "secret", "key", "token", "auth", "security", "ssl", "tls"}

\* the files of ctx.files that satisfy Test, in order
FilesWhere(ctx, Test(_)) == SelectSeq(ctx.files, Test)

\* RiskSecurityAgent._analyze_security_implications
analyze_security_implications(ctx) ==
    LET security_files == FilesWhere(ctx, LAMBDA f : is_security_file(f.filename))
        auth_files == FilesWhere(ctx, LAMBDA f : is_auth_file(f.filename))
        config_files == FilesWhere(ctx, LAMBDA f : is_config_file(f.filename))
        security_config_files ==
            SelectSeq(config_files,
                      LAMBDA f : /\ Truthy(f.patch)
                                 /\ ContainsAny(ToLower(f.patch), security_config_keywords))
        large_deletions == FilesWhere(ctx, LAMBDA f : f.deletions > 100)
        db_files == FilesWhere(ctx, LAMBDA f : is_database_file(f.filename))
        deploy_files == FilesWhere(ctx, LAMBDA f : is_deployment_file(f.filename))
    IN  (IF Len(security_files) > 0
         THEN <<"Security-sensitive files modified: "
                \o ToString(Len(security_files)) \o " files">>
         ELSE <<>>)
        \o
        (IF Len(auth_files) > 0
         THEN <<"Authentication/authorization files modified: "
                \o ToString(Len(auth_files)) \o " files">>
         ELSE <<>>)
        \o
        (IF Len(security_config_files) > 0
         THEN <<"Security configuration changes detected in: "
                \o Join([i \in 1..Len(security_config_files) |->
                           security_config_files[i].filename], ", ")>>
         ELSE <<>>)
        \o
        (IF Len(large_deletions) > 0
         THEN <<"Large deletions detected: " \o ToString(Len(large_deletions))
                \o " files with significant content removal">>
         ELSE <<>>)
        \o
        (IF Len(db_files) > 0
         THEN <<"Database/migration files modified: "
                \o ToString(Len(db_files)) \o " files">>
         ELSE <<>>)
        \o
        (IF Len(deploy_files) > 0
         THEN <<"Deployment configuration changes: "
                \o ToString(Len(deploy_files)) \o " files">>
         ELSE <<>>)

\* the factors dict RiskSecurityAgent.run hands to the scorer; the dependency
\* changes are DependencyChange objects, not dicts
risk_factors_input(ctx, secrets_detected, dependency_changes) ==
    [secrets_count |-> Len(secrets_detected),
     total_additions |-> TotalAdditions(ctx),
     dependency_changes |->
        [i \in 1..Len(dependency_changes) |->
            DepEntry(FALSE, dependency_changes[i].risk_level)],
     security_files_changed |->
        Len(FilesWhere(ctx, LAMBDA f : is_security_file(f.filename))),
     large_files_changed |->
        Len(FilesWhere(ctx, LAMBDA f : f.additions + f.deletions > 200))]

\* a variant of the except branch without min(100, ...)
basic_risk_unclamped(ctx) == Len(ctx.files) * 5 + (TotalAdditions(ctx) \div 100)

\* the except branch of RiskSecurityAgent.run
basic_risk(ctx) == Min(100, Len(ctx.files) * 5 + (TotalAdditions(ctx) \div 100))

risk_security_fallback(ctx, error) ==
    AgentResult("risk_security",
        [risk_score |-> basic_risk(ctx),
         risk_factors |-> <<"Unable to complete full security analysis">>,
         secrets_detected |-> <<>>,
         dependency_changes |-> <<>>,
         security_analysis |-> [error |-> error]],
        <<"Error during security analysis: " \o error>>)

\* the payload and result of the try branch of RiskSecurityAgent.run, from the
\* values its first two steps returned
risk_security_result(ctx, secrets_detected, dependency_changes) ==
    LET high_risk == SelectSeq(dependency_changes, LAMBDA d : d.risk_level = "high")
        risk_factors ==
            (IF Len(secrets_detected) > 0
             THEN <<"Potential secrets detected: "
                    \o ToString(Len(secrets_detected)) \o " occurrences">>
             ELSE <<>>)
            \o
            (IF Len(high_risk) > 0
             THEN <<"High-risk dependency changes: "
                    \o ToString(Len(high_risk)) \o " packages">>
             ELSE <<>>)
            \o analyze_security_implications(ctx)
    IN  AgentResult("risk_security",
            [risk_score |->
                CHOOSE risk_score \in
                    {calculate_risk_score(f) :
                        f \in {risk_factors_input(ctx, secrets_detected,
                                                  dependency_changes)}} : TRUE,
             risk_factors |-> risk_factors,
             secrets_detected |-> secrets_detected,
             dependency_changes |-> dependency_changes,
             security_analysis |->
                [secrets_count |-> Len(secrets_detected),
                 high_risk_dependencies |-> Len(high_risk),
                 security_files_modified |->
                    Len(FilesWhere(ctx, LAMBDA f : is_security_file(f.filename)))]],
            <<>>)

\* the try branch of RiskSecurityAgent.run (each one-element set holds the
\* value a step returned)
risk_security_normal(ctx, raising) ==
    CHOOSE result \in
        {risk_security_result(ctx, secrets_detected, dependency_changes) :
            secrets_detected \in {scan_for_secrets(ctx)},
            dependency_changes \in {analyze_dependency_changes(ctx, raising)}} : TRUE

\* RiskSecurityAgent.run
risk_security_run(ctx, fault) ==
    IF fault.at = "none" THEN risk_security_normal(ctx, fault.manifests)
    ELSE risk_security_fallback(ctx, ErrorText(fault.at))

(***************************************************************************)
(* agents/repo_scanner.py                                                  *)
(***************************************************************************)
\* str(e) of the AttributeError of file.status.value: PRFileModel stores the
\* status as a plain string (use_enum_values), which has no attribute value
status_value_error == "'str' object has no attribute 'value'"

\* the value a computation that is not unfolded here yields for the change set
Opaque(what, ctx) == what \o "(" \o ctx.head_sha \o ")"

rs_test_patterns ==
    {"test_", "_test.", "tests/", "/test/", ".test.", "spec_", "_spec.", "specs/",
     "/spec/", ".spec.", "__tests__/", "/*.test.*"}

rs_is_test_file(filename) == ContainsAny(ToLower(filename), rs_test_patterns)

rs_config_files ==
    {"config.", "settings.", ".env", ".ini", ".conf", "docker", "makefile", ".yml",
     ".yaml", ".json", "requirements.txt", "package.json", "setup.py",
     "pyproject.toml", "cargo.toml"}

rs_is_config_file(filename) == ContainsAny(ToLower(filename), rs_config_files)

critical_patterns ==
    {"dockerfile", "docker-compose", ".github/workflows/", "security", "auth",
     "login", "password", "secret", "deploy", "production", "database", "migration"}

is_critical_file(filename) == ContainsAny(ToLower(filename), critical_patterns)

\* max(ctx.language_stats.items(), key=lambda x: x[1])[0]: the first largest
PrimaryLang(ctx) ==
    LET stats == ctx.language_stats IN
    IF Len(stats) = 0 THEN "Unknown"
    ELSE stats[CHOOSE i \in 1..Len(stats) :
                 /\ \A j \in 1..Len(stats) : stats[j][2] <= stats[i][2]
                 /\ \A j \in 1..(i - 1) : stats[j][2] < stats[i][2]][1]

\* RepoScannerAgent._generate_summary
generate_summary(ctx) ==
    LET total_files == Len(ctx.files)
        total_additions == TotalAdditions(ctx)
        total_deletions == TotalDeletions(ctx)
        tests == Len(FilesWhere(ctx, LAMBDA f : rs_is_test_file(f.filename)))
        configs == Len(FilesWhere(ctx, LAMBDA f : /\ ~rs_is_test_file(f.filename)
                                                  /\ rs_is_config_file(f.filename)))
        summary_parts ==
            (IF total_files = 1
             THEN <<"Modifies 1 " \o PrimaryLang(ctx) \o " file">>
             ELSE <<"Modifies " \o ToString(total_files) \o " files">>)
            \o
            (IF total_additions > 0 /\ total_deletions > 0
             THEN <<"with " \o ToString(total_additions) \o " additions and "
                    \o ToString(total_deletions) \o " deletions">>
             ELSE IF total_additions > 0
             THEN <<"adding " \o ToString(total_additions) \o " lines">>
             ELSE IF total_deletions > 0
             THEN <<"removing " \o ToString(total_deletions) \o " lines">>
             ELSE <<>>)
            \o
            (IF tests > 0
             THEN <<"including " \o ToString(tests) \o " test file(s)">> ELSE <<>>)
            \o
            (IF configs > 0
             THEN <<"and " \o ToString(configs) \o " configuration file(s)">>
             ELSE <<>>)
        summary == Join(summary_parts, ". ") \o "."
        title_lower == ToLower(ctx.pr_title)
    IN  IF ctx.pr_title = "" THEN summary
        ELSE IF ContainsAny(title_lower, {"fix", "bug", "issue"})
        THEN "Bug fix: " \o summary
        ELSE IF ContainsAny(title_lower, {"feature", "add", "implement"})
        THEN "Feature addition: " \o summary
        ELSE IF ContainsAny(title_lower, {"refactor", "cleanup", "reorganize"})
        THEN "Refactoring: " \o summary
        ELSE IF ContainsAny(title_lower, {"update", "upgrade"})
        THEN "Update: " \o summary
        ELSE summary

\* RepoScannerAgent._categorize_changes raises in its loop over ctx.files: each
\* of the three branches evaluates file.status.value for the file it looks at
categorize_changes_raises(ctx) == Len(ctx.files) > 0

\* RepoScannerAgent._categorize_changes when it returns: the buckets filled
\* from the PR title and body, the empty ones removed
categorize_changes(ctx) ==
    LET pr_text == ToLower(ctx.pr_title \o " " \o ctx.pr_body)
        features ==
            IF ContainsAny(pr_text, {"add", "implement", "feature", "new"})
            THEN <<"Added new functionality based on PR title: " \o ctx.pr_title>>
            ELSE <<>>
        fixes ==
            IF ContainsAny(pr_text, {"fix", "bug", "issue", "resolve"})
            THEN <<"Fixed issue: " \o ctx.pr_title>> ELSE <<>>
        refactors ==
            IF ContainsAny(pr_text, {"refactor", "cleanup", "reorganize", "improve"})
            THEN <<"Code refactoring: " \o ctx.pr_title>> ELSE <<>>
        changelog == [features |-> features, fixes |-> fixes, refactors |-> refactors]
    IN  [k \in {b \in DOMAIN changelog : changelog[b] # <<>>} |-> changelog[k]]

\* DiffParser.parse_diff(...)["hotspots"]: an empty diff has no file and so no
\* hotspot; the hotspots of a diff with files are not unfolded
parse_diff_hotspots(ctx) ==
    IF ctx.raw_diff = "" THEN <<>> ELSE <<Opaque("hotspots", ctx)>>

\* RepoScannerAgent._identify_complexity_flags
identify_complexity_flags(ctx, hotspots) ==
    LET total_changes == TotalAdditions(ctx) + TotalDeletions(ctx)
        large == FilesWhere(ctx, LAMBDA f : f.additions + f.deletions > 300)
        binary_files == FilesWhere(ctx, LAMBDA f : is_binary_file(f.filename))
        critical_files == FilesWhere(ctx, LAMBDA f : is_critical_file(f.filename))
    IN  (IF total_changes > 1000
         THEN <<"Very large change: " \o ToString(total_changes)
                \o " total lines modified">>
         ELSE IF total_changes > 500
         THEN <<"Large change: " \o ToString(total_changes) \o " total lines modified">>
         ELSE <<>>)
        \o
        [i \in 1..Len(large) |->
            "Large single file change: " \o large[i].filename \o " ("
            \o ToString(large[i].additions + large[i].deletions) \o " lines)"]
        \o
        (IF Len(ctx.files) > 20
         THEN <<"Many files changed: " \o ToString(Len(ctx.files)) \o " files">>
         ELSE IF Len(ctx.files) > 10
         THEN <<"Multiple files changed: " \o ToString(Len(ctx.files)) \o " files">>
         ELSE <<>>)
        \o
        (IF Len(binary_files) > 0
         THEN <<"Binary files changed: " \o ToString(Len(binary_files)) \o " files">>
         ELSE <<>>)
        \o
        (IF Len(critical_files) > 0
         THEN <<"Critical system files modified: "
                \o Join([i \in 1..Len(critical_files) |-> critical_files[i].filename],
                        ", ")>>
         ELSE <<>>)
        \o
        (IF Len(hotspots) > 0
         THEN <<"Code hotspots detected: " \o ToString(Len(hotspots))
                \o " files with high complexity">>
         ELSE <<>>)

\* diff_stats of both payloads of RepoScannerAgent.run
diff_stats(ctx) ==
    [total_files |-> Len(ctx.files), total_additions |-> TotalAdditions(ctx),
     total_deletions |-> TotalDeletions(ctx)]

\* the except branch of RepoScannerAgent.run
repo_scanner_fallback(ctx, error) ==
    AgentResult("repo_scanner",
        [summary |-> "Error occurred during analysis",
         changelog |-> <<>>,
         complexity_flags |-> <<>>,
         diff_stats |-> diff_stats(ctx)],
        <<"Error during repository scanning: " \o error>>)

\* the try branch of RepoScannerAgent.run
repo_scanner_normal(ctx) ==
    AgentResult("repo_scanner",
        [summary |-> generate_summary(ctx),
         changelog |-> categorize_changes(ctx),
         complexity_flags |-> identify_complexity_flags(ctx, parse_diff_hotspots(ctx)),
         diff_stats |-> diff_stats(ctx)
                        @@ [language_distribution |-> ctx.language_stats],
         hotspots |-> parse_diff_hotspots(ctx)],
        <<>>)

\* RepoScannerAgent.run
repo_scanner_run(ctx, fault) ==
    IF fault.at # "none" THEN repo_scanner_fallback(ctx, ErrorText(fault.at))
    ELSE IF categorize_changes_raises(ctx)
    THEN repo_scanner_fallback(ctx, status_value_error)
    ELSE repo_scanner_normal(ctx)

(***************************************************************************)
(* agents/test_synthesizer.py                                              *)
(***************************************************************************)
ts_test_patterns == {"test_", "_test.", "tests/", "spec_", "_spec.", "__tests__/"}

ts_is_test_file(filename) == ContainsAny(ToLower(filename), ts_test_patterns)

ts_code_extensions == {".py", ".js", ".ts", ".java", ".go", ".rs", ".cpp", ".c"}

skip_patterns == {"config", "settings", "__init__", "migrations/", "docs/"}

\* TestSynthesizerAgent._is_testable_file
is_testable_file(filename) ==
    /\ ~ts_is_test_file(filename)
    /\ \E ext \in ts_code_extensions : EndsWith(filename, ext)
    /\ ~ContainsAny(ToLower(filename), skip_patterns)

\* TestSynthesizerAgent._analyze_file_for_tests returns [] for a file without
\* a patch and otherwise reaches file.status.value, which raises
analyze_file_for_tests_raises(file) == Truthy(file.patch)

test_synthesizer_raises(ctx) ==
    \E i \in 1..Len(ctx.files) :
        /\ is_testable_file(ctx.files[i].filename)
        /\ analyze_file_for_tests_raises(ctx.files[i])

\* the except branch of TestSynthesizerAgent.run
test_synthesizer_fallback(ctx, error) ==
    AgentResult("test_synthesizer",
        [test_suggestions |-> <<>>,
         analysis_summary |-> [error |-> error]],
        <<"Error during test synthesis: " \o error>>)

\* the try branch of TestSynthesizerAgent.run when no file raises: every
\* testable file is without a patch and contributes no suggestion
test_synthesizer_normal(ctx) ==
    AgentResult("test_synthesizer",
        [test_suggestions |-> <<>>,
         analysis_summary |->
            [total_suggestions |-> 0,
             files_analyzed |->
                Len(FilesWhere(ctx, LAMBDA f : is_testable_file(f.filename))),
             functions_identified |-> 0]],
        <<>>)

\* TestSynthesizerAgent.run
test_synthesizer_run(ctx, fault) ==
    IF test_synthesizer_raises(ctx)
    THEN test_synthesizer_fallback(ctx, status_value_error)
    ELSE IF fault.at # "none"
    THEN test_synthesizer_fallback(ctx, ErrorText(fault.at))
    ELSE test_synthesizer_normal(ctx)

(***************************************************************************)
(* agents/reviewer.py                                                      *)
(***************************************************************************)
ReviewChecklistItem(category, text, severity) ==
    [category |-> category, text |-> text, severity |-> severity,
     line_reference |-> None]

\* the except branch of ReviewerAgent.run
reviewer_fallback(ctx, error) ==
    AgentResult("reviewer",
        [review_checklist |->
            <<ReviewChecklistItem("General",
                                  "Standard code review (automated analysis failed)",
                                  "medium")>>,
         analysis_summary |-> [error |-> error]],
        <<"Error during review analysis: " \o error>>)

\* the try branch of ReviewerAgent.run; the items of the seven sub-analyses
\* are not unfolded
reviewer_normal(ctx) ==
    AgentResult("reviewer",
        [review_checklist |->
            <<ReviewChecklistItem("Code Quality", Opaque("checklist", ctx), "low")>>,
         analysis_summary |->
            [total_items |-> 1, high_priority |-> 0, medium_priority |-> 0,
             low_priority |-> 1]],
        <<>>)

\* ReviewerAgent.run
reviewer_run(ctx, fault) ==
    IF fault.at # "none" THEN reviewer_fallback(ctx, ErrorText(fault.at))
    ELSE reviewer_normal(ctx)

(***************************************************************************)
(* services/github_client.py                                               *)
(***************************************************************************)
bot_marker == "<!-- pr-auto-orchestrator: v1 -->"

NoComment == [id |-> 0, body |-> ""]

\* a lookup that never finds a comment
find_existing_comment_none(comment_list) == NoComment

\* GitHubClient._find_existing_comment, on the listing GitHub answered
find_existing_comment(comment_list) ==
    LET idx == {i \in 1..Len(comment_list) : Contains(comment_list[i].body, bot_marker)}
    IN  IF idx = {} THEN NoComment
        ELSE comment_list[CHOOSE i \in idx : \A j \in idx : i <= j]

\* PATCH /issues/comments/{id}: the body of the comment with that id is replaced
patch_comment(comment_list, id, body) ==
    [i \in 1..Len(comment_list) |->
        IF comment_list[i].id = id THEN [id |-> id, body |-> body]
        ELSE comment_list[i]]

\* POST /issues/{pr_number}/comments: a comment with a fresh id is appended
create_comment(comment_list, body) ==
    Append(comment_list, [id |-> Len(comment_list) + 1, body |-> body])

dependency_file_names ==
    {"requirements.txt", "requirements-dev.txt", "Pipfile", "pyproject.toml",
     "package.json", "package-lock.json", "yarn.lock", "Gemfile", "Gemfile.lock",
     "pom.xml", "build.gradle", "go.mod", "go.sum"}

\* GitHubClient._is_dependency_file
is_dependency_file(filename) ==
    \E dep_file \in dependency_file_names : EndsWith(filename, dep_file)

\* filename.split('.')[-1] if '.' in filename else 'other'
LanguageOf(filename) ==
    IF Contains(filename, ".")
    THEN LET parts == Split(filename, ".") IN parts[Len(parts)]
    ELSE "other"

\* language_stats[ext] = language_stats.get(ext, 0) + n, on an insertion-ordered
\* dict kept as a list of <<key, value>>
DictAdd(items, key, n) ==
    IF \E i \in 1..Len(items) : items[i][1] = key
    THEN [i \in 1..Len(items) |->
            IF items[i][1] = key THEN <<key, items[i][2] + n>> ELSE items[i]]
    ELSE Append(items, <<key, n>>)

RECURSIVE LanguageStats(_, _, _)
LanguageStats(files, i, stats) ==
    IF i > Len(files) THEN stats
    ELSE LanguageStats(files, i + 1,
            DictAdd(stats, LanguageOf(files[i].filename),
                    files[i].additions + files[i].deletions))

\* status_map.get(file_data['status'], PRFileStatus.MODIFIED), stored by value
StatusOf(status) ==
    IF status \in {"added", "modified", "removed"} THEN status ELSE "modified"

\* the content GitHub serves for a path of the pull request's head
ContentOf(pr, filename) ==
    LET idx == {i \in 1..Len(pr.contents) : pr.contents[i][1] = filename}
    IN  IF idx = {} THEN "" ELSE pr.contents[CHOOSE i \in idx : TRUE][2]

\* GitHubClient.build_pr_context when the three GETs succeed: pr is what
\* GitHub answers for the pull request, fetched the dependency files whose
\* get_file_content succeeds (a failing one is logged and left out)
build_pr_context(data, pr, fetched) ==
    LET files == [i \in 1..Len(pr.files_data) |->
                    LET fd == pr.files_data[i] IN
                    PRFileModel(fd.filename, StatusOf(fd.status), fd.additions,
                                fd.deletions, fd.changes, fd.patch)]
    IN  [run_id |-> data.run_id,
         repo_full_name |-> data.repo_full_name,
         pr_number |-> data.pr_number,
         head_sha |-> data.head_sha,
         base_sha |-> data.base_sha,
         files |-> files,
         raw_diff |-> pr.raw_diff,
         language_stats |-> LanguageStats(files, 1, <<>>),
         dependency_files |->
            LET deps == SelectSeq(files, LAMBDA f : /\ is_dependency_file(f.filename)
                                                    /\ f.filename \in fetched)
            IN  [i \in 1..Len(deps) |->
                    <<deps[i].filename, ContentOf(pr, deps[i].filename)>>],
         pr_title |-> pr.title,
         pr_body |-> pr.body,
         author |-> pr.author,
         labels |-> <<>>]

(***************************************************************************)
(* services/comment_builder.py                                             *)
(***************************************************************************)
\* CommentBuilder.build_comment: the rendered report, with the marker embedded
build_comment(report) ==
    bot_marker \o "\n" \o report.summary \o "\nRisk score: "
    \o ToString(report.risk_score)

(***************************************************************************)
(* orchestrator/runner.py                                                  *)
(***************************************************************************)
\* the agents list of run_agent_pipeline, in the order of the loop
agents == <<"repo_scanner", "risk_security", "test_synthesizer", "reviewer">>

\* agent.run(pr_context) for the agent registered under agent_name
agent_run(agent_name, ctx, fault) ==
    CASE agent_name = "repo_scanner" -> repo_scanner_run(ctx, fault)
      [] agent_name = "risk_security" -> risk_security_run(ctx, fault)
      [] agent_name = "test_synthesizer" -> test_synthesizer_run(ctx, fault)
      [] agent_name = "reviewer" -> reviewer_run(ctx, fault)

\* the PRAnalysis run_agent_pipeline builds from the four results
\* mutant: every warning of a stage adds to the score of the report
merged_risk_score_penalised(results) ==
    Min(100, Get(results["risk_security"].payload, "risk_score", 0)
             + 5 * (Len(results["repo_scanner"].warnings)
                    + Len(results["risk_security"].warnings)
                    + Len(results["test_synthesizer"].warnings)
                    + Len(results["reviewer"].warnings)))

\* risk_score=risk_payload.get("risk_score", 0)
merged_risk_score(results) ==
    Get(results["risk_security"].payload, "risk_score", 0)

PRAnalysis(ctx, results, times) ==
    [run_id |-> ctx.run_id,
     repo_full_name |-> ctx.repo_full_name,
     pr_number |-> ctx.pr_number,
     head_sha |-> ctx.head_sha,
     base_sha |-> ctx.base_sha,
     summary |-> Get(results["repo_scanner"].payload, "summary", ""),
     changelog |-> Get(results["repo_scanner"].payload, "changelog", <<>>),
     complexity_flags |->
        Get(results["repo_scanner"].payload, "complexity_flags", <<>>),
     risk_score |-> merged_risk_score(results),
     risk_factors |-> Get(results["risk_security"].payload, "risk_factors", <<>>),
     secrets_detected |->
        Get(results["risk_security"].payload, "secrets_detected", <<>>),
     dependency_changes |->
        Get(results["risk_security"].payload, "dependency_changes", <<>>),
     test_suggestions |->
        Get(results["test_synthesizer"].payload, "test_suggestions", <<>>),
     review_checklist |-> Get(results["reviewer"].payload, "review_checklist", <<>>),
     agent_times_ms |-> times,
     total_files |-> Len(ctx.files),
     total_additions |-> TotalAdditions(ctx),
     total_deletions |-> TotalDeletions(ctx)]

\* the dict run_pr_analysis returns
RunResult(run_id, report, ctx) ==
    [run_id |-> run_id,
     status |-> "completed",
     metrics |-> [agent_times_ms |-> report.agent_times_ms,
                  total_files |-> Len(ctx.files),
                  total_additions |-> TotalAdditions(ctx),
                  total_deletions |-> TotalDeletions(ctx),
                  risk_score |-> report.risk_score],
     analysis |-> report,
     comment_posted |-> TRUE]

(***************************************************************************)
(* The pull requests GitHub serves and the faults a stage may meet         *)
(***************************************************************************)
FileData(filename, status, additions, deletions, patch) ==
    [filename |-> filename, status |-> status, additions |-> additions,
     deletions |-> deletions, changes |-> additions + deletions, patch |-> patch]

PullRequest(head_sha, title, files_data, raw_diff, contents) ==
    [head_sha |-> head_sha, title |-> title, body |-> "", author |-> "octocat",
     files_data |-> files_data, raw_diff |-> raw_diff, contents |-> contents]

PrEmpty == PullRequest("sha-empty", "Add nothing yet", <<>>, "", <<>>)

PrConfig ==
    PullRequest("sha-config", "Update config",
        <<FileData("config.py", "modified", 1, 0,
                   "@@ -10,0 +10,3 @@\n+password = \"Sup3rSecret!\"")>>,
        "diff --git a/config.py b/config.py\n@@ -10,0 +10,3 @@\n+password = \"Sup3rSecret!\"",
        <<>>)

PrLogin ==
    PullRequest("sha-login", "Add login",
        <<FileData("auth/login.py", "added", 120, 0,
                   "@@ -0,0 +1,2 @@\n+def login(user):\n+    return True")>>,
        "diff --git a/auth/login.py b/auth/login.py\n@@ -0,0 +1,2 @@\n+def login(user):\n+    return True",
        <<>>)

PrDeps ==
    PullRequest("sha-deps", "Bump deps",
        <<FileData("requirements.txt", "modified", 1, 0,
                   "@@ -1,0 +1,1 @@\n+cryptography==41.0.0")>>,
        "diff --git a/requirements.txt b/requirements.txt\n@@ -1,0 +1,1 @@\n+cryptography==41.0.0",
        <<<<"requirements.txt", "cryptography==41.0.0\n">>>>)

\* a generated bundle: GitHub counts its lines and serves no patch for it
PrBundle ==
    PullRequest("sha-bundle", "Rebuild bundle",
        <<FileData("dist/bundle.min.js", "added", 12000, 0, None)>>,
        "diff --git a/dist/bundle.min.js b/dist/bundle.min.js",
        <<>>)

\* a manifest that gains a line with a credential; its content is fetched
PrToken ==
    PullRequest("sha-token", "Configure index",
        <<FileData("requirements.txt", "modified", 1, 0,
                   "@@ -1,0 +1,1 @@\n+password = \"Sup3rSecret!\"")>>,
        "diff --git a/requirements.txt b/requirements.txt\n@@ -1,0 +1,1 @@\n+password = \"Sup3rSecret!\"",
        <<<<"requirements.txt", "password = \"Sup3rSecret!\"\n">>>>)

PullRequests == {PrEmpty, PrConfig, PrLogin, PrDeps, PrBundle, PrToken}

\* the pull request at a head commit
PullRequestAt(head_sha) == CHOOSE pr \in PullRequests : pr.head_sha = head_sha

\* payload.get("installation", {}).get("id") of the webhook: an id, or None
InstallationIds == {None, "42"}

\* the dependency files of a pull request
DependencyNames(pr) ==
    {pr.files_data[i].filename : i \in {j \in 1..Len(pr.files_data) :
                                          is_dependency_file(pr.files_data[j].filename)}}

Fault(at, manifests) == [at |-> at, manifests |-> manifests]

\* the dependency files of the context that carry content
Manifests(ctx) ==
    {ctx.dependency_files[i][1] : i \in {j \in 1..Len(ctx.dependency_files) :
                                           ctx.dependency_files[j][2] # ""}}

\* the faults each stage is run under
FaultsOf(agent_name, ctx) ==
    CASE agent_name = "repo_scanner" -> {NoFault, Fault("parse_diff", {})}
      [] agent_name = "risk_security" ->
            {Fault("none", m) : m \in SUBSET Manifests(ctx)}
            \cup {Fault("_scan_for_secrets", {})}
            \cup {Fault("calculate_risk_score", m) : m \in SUBSET Manifests(ctx)}
      [] agent_name = "test_synthesizer" -> {NoFault, Fault("_deduplicate_suggestions", {})}
      [] agent_name = "reviewer" -> {NoFault, Fault("_analyze_code_quality", {})}

\* whether an exception is raised inside agent.run (and caught there)
RaisesInside(agent_name, ctx, fault) ==
    \/ fault.at # "none"
    \/ agent_name = "risk_security" /\ fault.manifests # {}
    \/ agent_name = "repo_scanner" /\ categorize_changes_raises(ctx)
    \/ agent_name = "test_synthesizer" /\ test_synthesizer_raises(ctx)

NoData == [run_id |-> None]
NoContext == [run_id |-> None]
NoAnalysis == [run_id |-> None]
NoResult == [status |-> None]
NoDict == [k \in {} |-> 0]

(***************************************************************************)
(* Inputs of the scorer                                                    *)
(***************************************************************************)
CountKeys == {"secrets_count", "security_files_changed", "large_files_changed",
              "binary_files_changed", "database_files_changed",
              "security_config_files_changed", "deployment_files_changed"}

FactorKeys == CountKeys \cup {"total_additions", "dependency_changes",
                              "total_files", "large_deletions"}

\* the keys RiskSecurityAgent.run passes
AgentFactorKeys == {"secrets_count", "total_additions", "dependency_changes",
                    "security_files_changed", "large_files_changed"}

DepInputs == { <<>>,
               <<DepEntry(TRUE, "high")>>,
               <<DepEntry(TRUE, "low"), DepEntry(FALSE, "high")>> }

\* the dict restricted to a key set
Restrict(f, keys) == [k \in keys |-> f[k]]

ThresholdInputs(t) == {0, t, t + 1}

FactorInputs ==
    { Restrict(c @@ ("total_additions" :> a) @@ ("total_files" :> n)
                 @@ ("large_deletions" :> l) @@ ("dependency_changes" :> d), keys) :
        c \in [CountKeys -> 0..MaxCount],
        a \in ThresholdInputs(AdditionsThreshold),
        n \in ThresholdInputs(FilesThreshold),
        l \in ThresholdInputs(DeletionsThreshold),
        d \in DepInputs,
        keys \in {FactorKeys, AgentFactorKeys} }

AllZero(f) ==
    /\ \A k \in CountKeys : Get(f, k, 0) = 0
    /\ Get(f, "total_additions", 0) = 0
    /\ Get(f, "total_files", 0) = 0
    /\ Get(f, "large_deletions", 0) = 0
    /\ Get(f, "dependency_changes", <<>>) = <<>>

AllMaxed(f) ==
    /\ \A k \in CountKeys : Get(f, k, 0) > 0
    /\ Get(f, "total_additions", 0) > AdditionsThreshold
    /\ Get(f, "total_files", 0) > FilesThreshold
    /\ Get(f, "large_deletions", 0) > DeletionsThreshold
    /\ high_risk_deps(Get(f, "dependency_changes", <<>>)) > 0

(***************************************************************************)
(* The state of the workers before any job                                 *)
(***************************************************************************)
Workers == 1..NumWorkers

Phases == {"idle", "build_context", "run_stages", "merge", "publish",
           "write_comment", "done", "failed"}

\* no service function has been called on its own
CallIdle ==
    /\ callName = "none"
    /\ callArgs = <<>>
    /\ callResult = <<>>
    /\ objects = <<>>

PipelineIdle ==
    /\ comments = <<>>
    /\ jobs = 0
    /\ pc = [w \in Workers |-> "idle"]
    /\ pr_data = [w \in Workers |-> NoData]
    /\ pr_context = [w \in Workers |-> NoContext]
    /\ calls = [w \in Workers |-> <<>>]
    /\ raised = [w \in Workers |-> {}]
    /\ agent_results = [w \in Workers |-> NoDict]
    /\ agent_times = [w \in Workers |-> NoDict]
    /\ analysis = [w \in Workers |-> NoAnalysis]
    /\ existing = [w \in Workers |-> NoComment]
    /\ returned = [w \in Workers |-> NoResult]
    /\ propagated = [w \in Workers |-> FALSE]
    /\ failed_in = [w \in Workers |-> None]
    /\ log = [w \in Workers |-> <<>>]

(***************************************************************************)
(* Specification of the scorer: an input is chosen, then scored            *)
(***************************************************************************)
ScorerIdle ==
    /\ factors = NoFactors
    /\ score = 0
    /\ scorePc = "idle"

ScanIdle ==
    /\ scanText = ""
    /\ scanFile = ""
    /\ scanMode = "none"
    /\ detections = <<>>
    /\ scanPc = "idle"

ScorerInit ==
    /\ factors = NoFactors
    /\ score = 0
    /\ scorePc = "input"
    /\ ScanIdle
    /\ PipelineIdle
    /\ CallIdle

ChooseFactors ==
    /\ scorePc = "input"
    /\ factors = NoFactors
    /\ \E f \in FactorInputs : factors' = f
    /\ UNCHANGED <<score, scorePc>>
    /\ UNCHANGED <<scanVars, pipelineVars, callVars>>

Score ==
    /\ scorePc = "input"
    /\ score' = calculate_risk_score(factors)
    /\ scorePc' = "scored"
    /\ UNCHANGED factors
    /\ UNCHANGED <<scanVars, pipelineVars, callVars>>

ScorerNext == ChooseFactors \/ Score

SpecScorer == ScorerInit /\ [][ScorerNext]_vars

(***************************************************************************)
(* C1: calculate_risk_score returns an integer in [0,100] for every        *)
(* factors input; 0 when every factor is zero or absent; exactly 100 when  *)
(* every factor condition is satisfied, although the raw sum exceeds 100.  *)
(***************************************************************************)
C1_ScoreBounded ==
    scorePc = "scored" =>
        /\ score \in 0..100
        /\ (AllZero(factors) => score = 0)
        /\ (AllMaxed(factors) => score = 100 /\ RawScore(factors) > 100)

C1_Witness ==
    /\ scorePc = "scored"
    /\ AllMaxed(factors)
    /\ score = 100

(***************************************************************************)
(* Specification of the secret scanner: a text and a filename are chosen,  *)
(* then one of the two entry points is called on them                      *)
(***************************************************************************)
ScanLinePool ==
    { "@@ -10,0 +10,3 @@",
      "@@ -1,2 +3,4 @@ def f():",
      "+password = \"Sup3rSecret!\"",
      "+import os",
      " x = 1",
      "-password = \"0ldSecret!!\"",
      "api_key = \"YOUR_API_KEY\"",
      "+api_key = \"YOUR_API_KEY_HERE\"",
      "+password = \"example-pass1\"",
      "+++i; password = \"Sup3rSecret!\"",
      "\\ No newline at end of file" }

ScanFileInputs == {"config.py", "requirements.txt"}

RECURSIVE JoinLines(_)
JoinLines(lines) ==
    IF Len(lines) = 0 THEN ""
    ELSE IF Len(lines) = 1 THEN lines[1]
    ELSE lines[1] \o "\n" \o JoinLines(Tail(lines))

ScanTextInputs ==
    UNION { {JoinLines(ls) : ls \in [1..n -> ScanLinePool]} : n \in 1..MaxPatchLines }

ScanInit ==
    /\ ScorerIdle
    /\ scanText = ""
    /\ scanFile = ""
    /\ scanMode = "none"
    /\ detections = <<>>
    /\ scanPc = "input"
    /\ PipelineIdle
    /\ CallIdle

ChooseScanInput ==
    /\ scanPc = "input"
    /\ \E t \in ScanTextInputs, f \in ScanFileInputs :
         /\ scanText' = t
         /\ scanFile' = f
    /\ scanPc' = "chosen"
    /\ UNCHANGED <<scanMode, detections>>
    /\ UNCHANGED <<scorerVars, pipelineVars, callVars>>

ScanDiff ==
    /\ scanPc = "chosen"
    /\ detections' = scan_diff(scanText, scanFile)
    /\ scanMode' = "diff"
    /\ scanPc' = "scanned"
    /\ UNCHANGED <<scanText, scanFile>>
    /\ UNCHANGED <<scorerVars, pipelineVars, callVars>>

ScanContent ==
    /\ scanPc = "chosen"
    /\ detections' = scan_content(scanText, scanFile)
    /\ scanMode' = "content"
    /\ scanPc' = "scanned"
    /\ UNCHANGED <<scanText, scanFile>>
    /\ UNCHANGED <<scorerVars, pipelineVars, callVars>>

ScanNext == ChooseScanInput \/ ScanDiff \/ ScanContent

SpecScan == ScanInit /\ [][ScanNext]_vars

(***************************************************************************)
(* C10: scan_diff on the patch for config.py made of the hunk header       *)
(* "@@ -10,0 +10,3 @@" and the added line +password = "Sup3rSecret!"       *)
(* returns exactly one finding, with filename config.py, line number 10    *)
(* or 11, and severity medium.                                             *)
(***************************************************************************)
C10_Patch == "@@ -10,0 +10,3 @@\n+password = \"Sup3rSecret!\""

C10_Scanned ==
    /\ scanPc = "scanned"
    /\ scanMode = "diff"
    /\ scanText = C10_Patch
    /\ scanFile = "config.py"

C10_OnePasswordFinding ==
    C10_Scanned =>
        /\ Len(detections) = 1
        /\ detections[1].filename = "config.py"
        /\ detections[1].line_number \in {10, 11}
        /\ detections[1].severity = "medium"

C10_Witness ==
    /\ C10_Scanned
    /\ Len(detections) = 1
    /\ detections[1].pattern_type = "Password"

(***************************************************************************)
(* Specification of the pipeline: jobs for one pull request, run by a      *)
(* worker one after another (worker.py, runner.py, github_client.py)       *)
(***************************************************************************)
\* int((time.time() - start_time) * 1000) of a stage
ElapsedMs == {0}

\* what the job of worker w has logged, with entries appended
Logged(w, entries) == [log EXCEPT ![w] = @ \o entries]

\* mutant: the except branch logs the error and swallows it
FailsSilently(w, phase, error) ==
    /\ pc' = [pc EXCEPT ![w] = "failed"]
    /\ failed_in' = [failed_in EXCEPT ![w] = phase]
    /\ propagated' = [propagated EXCEPT ![w] = FALSE]
    /\ log' = Logged(w, <<[event |-> "Failed PR analysis pipeline",
                           run_id |-> pr_data[w].run_id, error |-> error]>>)

\* the except branches of run_pr_analysis and of process_pr_analysis: both
\* log the error and re-raise
Fails(w, phase, error) ==
    /\ pc' = [pc EXCEPT ![w] = "failed"]
    /\ failed_in' = [failed_in EXCEPT ![w] = phase]
    /\ propagated' = [propagated EXCEPT ![w] = TRUE]
    /\ log' = Logged(w, <<[event |-> "Failed PR analysis pipeline",
                           run_id |-> pr_data[w].run_id, error |-> error],
                          [event |-> "Failed PR analysis",
                           run_id |-> pr_data[w].run_id, error |-> error]>>)

\* enqueue_pr_analysis gives the job a fresh run_id; the worker picks it up
\* and process_pr_analysis enters run_pr_analysis
StartRun(w) ==
    /\ pc[w] \in {"idle", "done", "failed"}
    /\ jobs < MaxRuns
    /\ jobs' = jobs + 1
    /\ \E pr \in PullRequests, installation_id \in InstallationIds :
         pr_data' = [pr_data EXCEPT ![w] =
                        [run_id |-> "run-" \o ToString(jobs + 1),
                         repo_full_name |-> "octo/repo",
                         pr_number |-> 1,
                         head_sha |-> pr.head_sha,
                         base_sha |-> "sha-base",
                         installation_id |-> installation_id]]
    /\ pc' = [pc EXCEPT ![w] = "build_context"]
    /\ pr_context' = [pr_context EXCEPT ![w] = NoContext]
    /\ calls' = [calls EXCEPT ![w] = <<>>]
    /\ raised' = [raised EXCEPT ![w] = {}]
    /\ agent_results' = [agent_results EXCEPT ![w] = NoDict]
    /\ agent_times' = [agent_times EXCEPT ![w] = NoDict]
    /\ analysis' = [analysis EXCEPT ![w] = NoAnalysis]
    /\ existing' = [existing EXCEPT ![w] = NoComment]
    /\ returned' = [returned EXCEPT ![w] = NoResult]
    /\ propagated' = [propagated EXCEPT ![w] = FALSE]
    /\ failed_in' = [failed_in EXCEPT ![w] = None]
    /\ log' = [log EXCEPT ![w] =
                  <<[event |-> "Starting PR analysis",
                     run_id |-> "run-" \o ToString(jobs + 1)],
                    [event |-> "Starting PR analysis pipeline",
                     run_id |-> "run-" \o ToString(jobs + 1)]>>]
    /\ UNCHANGED comments
    /\ UNCHANGED <<scorerVars, scanVars, callVars>>

\* run_pr_analysis, step 1: build_pr_context succeeds. GitHub issues a token
\* only for an installation id, so the GETs need one
BuildContext(w) ==
    /\ pc[w] = "build_context"
    /\ pr_data[w].installation_id # None
    /\ LET pr == PullRequestAt(pr_data[w].head_sha) IN
       \E fetched \in SUBSET DependencyNames(pr) :
         LET ctx == build_pr_context(pr_data[w], pr, fetched) IN
         /\ pr_context' = [pr_context EXCEPT ![w] = ctx]
         /\ log' = Logged(w, <<[event |-> "Built PR context",
                                run_id |-> pr_data[w].run_id,
                                files_count |-> Len(ctx.files),
                                additions |-> TotalAdditions(ctx),
                                deletions |-> TotalDeletions(ctx)],
                               [event |-> "Starting agent pipeline"]>>)
    /\ pc' = [pc EXCEPT ![w] = "run_stages"]
    /\ UNCHANGED <<comments, jobs, pr_data, calls, raised, agent_results,
                   agent_times, analysis, existing, returned, propagated, failed_in>>
    /\ UNCHANGED <<scorerVars, scanVars, callVars>>

\* run_pr_analysis, step 1: a request of build_pr_context fails
BuildContextFails(w) ==
    /\ pc[w] = "build_context"
    /\ Fails(w, "build_context", "HTTPError")
    /\ UNCHANGED <<comments, jobs, pr_data, pr_context, calls, raised, agent_results,
                   agent_times, analysis, existing, returned>>
    /\ UNCHANGED <<scorerVars, scanVars, callVars>>

\* the elapsed time the loop records under the agent's name
RecordTimeIfNoWarning(times, agent_name, result, elapsed) ==
    IF result.warnings = <<>> THEN times @@ (agent_name :> elapsed) ELSE times

\* agent_times[agent_name] = agent_time
RecordTime(times, agent_name, result, elapsed) ==
    [k \in DOMAIN times \cup {agent_name} |->
        IF k = agent_name THEN elapsed ELSE times[k]]

\* one turn of the loop of run_agent_pipeline: the next agent of the list runs
RunAgent(w, agent_name) ==
    /\ pc[w] = "run_stages"
    /\ Len(calls[w]) < Len(agents)
    /\ agents[Len(calls[w]) + 1] = agent_name
    /\ \E fault \in FaultsOf(agent_name, pr_context[w]), elapsed \in ElapsedMs :
       \E result \in {agent_run(agent_name, pr_context[w], fault)} :
         /\ agent_times' = [agent_times EXCEPT ![w] =
                               RecordTime(@, agent_name, result, elapsed)]
         /\ agent_results' = [agent_results EXCEPT ![w] =
                                 [k \in DOMAIN @ \cup {agent_name} |->
                                     IF k = agent_name THEN result ELSE @[k]]]
         /\ raised' = [raised EXCEPT ![w] =
                          IF RaisesInside(agent_name, pr_context[w], fault)
                          THEN @ \cup {agent_name} ELSE @]
         /\ log' = Logged(w, <<[event |-> "Running " \o agent_name \o " agent"],
                               [event |-> "Completed " \o agent_name \o " agent",
                                warnings |-> Len(result.warnings)]>>)
    /\ calls' = [calls EXCEPT ![w] = Append(@, agent_name)]
    /\ pc' = [pc EXCEPT ![w] =
                 IF Len(calls[w]) + 1 = Len(agents) THEN "merge" ELSE "run_stages"]
    /\ UNCHANGED <<comments, jobs, pr_data, pr_context, analysis, existing, returned,
                   propagated, failed_in>>
    /\ UNCHANGED <<scorerVars, scanVars, callVars>>

RunRepoScanner(w) == RunAgent(w, "repo_scanner")
RunRiskSecurity(w) == RunAgent(w, "risk_security")
RunTestSynthesizer(w) == RunAgent(w, "test_synthesizer")
RunReviewer(w) == RunAgent(w, "reviewer")

\* run_agent_pipeline after the loop: the results are combined into the report
Merge(w) ==
    /\ pc[w] = "merge"
    /\ LET report == PRAnalysis(pr_context[w], agent_results[w], agent_times[w]) IN
         /\ analysis' = [analysis EXCEPT ![w] = report]
         /\ log' = Logged(w, <<[event |-> "Completed agent pipeline",
                                risk_score |-> report.risk_score,
                                test_suggestions_count |-> Len(report.test_suggestions),
                                review_items_count |-> Len(report.review_checklist)]>>)
    /\ pc' = [pc EXCEPT ![w] = "publish"]
    /\ UNCHANGED <<comments, jobs, pr_data, pr_context, calls, raised, agent_results,
                   agent_times, existing, returned, propagated, failed_in>>
    /\ UNCHANGED <<scorerVars, scanVars, callVars>>

\* run_pr_analysis, step 3, first half of post_pr_comment: the comment is
\* rendered and the listing of the pull request's comments is searched
FindExistingComment(w) ==
    /\ pc[w] = "publish"
    /\ pr_data[w].installation_id # None
    /\ existing' = [existing EXCEPT ![w] = find_existing_comment(comments)]
    /\ pc' = [pc EXCEPT ![w] = "write_comment"]
    /\ UNCHANGED <<comments, jobs, pr_data, pr_context, calls, raised, agent_results,
                   agent_times, analysis, returned, propagated, failed_in, log>>
    /\ UNCHANGED <<scorerVars, scanVars, callVars>>

\* post_pr_comment raises before it writes: no installation id, or the GET of
\* the listing fails
FindExistingCommentFails(w) ==
    /\ pc[w] = "publish"
    /\ Fails(w, "publish",
             IF pr_data[w].installation_id = None
             THEN "Installation ID not available" ELSE "HTTPError")
    /\ UNCHANGED <<comments, jobs, pr_data, pr_context, calls, raised, agent_results,
                   agent_times, analysis, existing, returned>>
    /\ UNCHANGED <<scorerVars, scanVars, callVars>>

\* second half of post_pr_comment and the rest of run_pr_analysis: the found
\* comment is updated, or a new one created; the result is returned
WriteComment(w) ==
    /\ pc[w] = "write_comment"
    /\ LET body == build_comment(analysis[w]) IN
       comments' = IF existing[w] # NoComment
                   THEN patch_comment(comments, existing[w].id, body)
                   ELSE create_comment(comments, body)
    /\ returned' = [returned EXCEPT ![w] =
                       RunResult(pr_data[w].run_id, analysis[w], pr_context[w])]
    /\ log' = Logged(w, <<[event |-> "Completed PR analysis pipeline",
                           run_id |-> pr_data[w].run_id,
                           risk_score |-> analysis[w].risk_score],
                          [event |-> "Completed PR analysis",
                           run_id |-> pr_data[w].run_id, status |-> "success"]>>)
    /\ pc' = [pc EXCEPT ![w] = "done"]
    /\ UNCHANGED <<jobs, pr_data, pr_context, calls, raised, agent_results,
                   agent_times, analysis, existing, propagated, failed_in>>
    /\ UNCHANGED <<scorerVars, scanVars, callVars>>

\* mutant: a failed PATCH or POST is ignored and the run reports completion
WriteCommentFailsButCompletes(w) ==
    /\ pc[w] = "write_comment"
    /\ returned' = [returned EXCEPT ![w] =
                       RunResult(pr_data[w].run_id, analysis[w], pr_context[w])]
    /\ pc' = [pc EXCEPT ![w] = "done"]
    /\ UNCHANGED <<comments, jobs, pr_data, pr_context, calls, raised, agent_results,
                   agent_times, analysis, existing, propagated, failed_in, log>>
    /\ UNCHANGED <<scorerVars, scanVars, callVars>>

\* the PATCH or the POST of post_pr_comment fails
WriteCommentFails(w) ==
    /\ pc[w] = "write_comment"
    /\ Fails(w, "publish", "HTTPError")
    /\ UNCHANGED <<comments, jobs, pr_data, pr_context, calls, raised, agent_results,
                   agent_times, analysis, existing, returned>>
    /\ UNCHANGED <<scorerVars, scanVars, callVars>>

\* another user comments on the pull request
OtherComment ==
    /\ Cardinality({i \in 1..Len(comments) :
                      ~Contains(comments[i].body, bot_marker)}) < MaxOtherComments
    /\ comments' = create_comment(comments, "LGTM")
    /\ UNCHANGED <<jobs, jobVars>>
    /\ UNCHANGED <<scorerVars, scanVars, callVars>>

Init ==
    /\ ScorerIdle
    /\ ScanIdle
    /\ PipelineIdle
    /\ CallIdle

Step(w) ==
    \/ StartRun(w)
    \/ BuildContext(w)
    \/ BuildContextFails(w)
    \/ RunRepoScanner(w)
    \/ RunRiskSecurity(w)
    \/ RunTestSynthesizer(w)
    \/ RunReviewer(w)
    \/ Merge(w)
    \/ FindExistingComment(w)
    \/ FindExistingCommentFails(w)
    \/ WriteComment(w)
    \/ WriteCommentFails(w)

\* the jobs run one after another: one worker takes them all
Next == Step(1) \/ OtherComment

Spec == Init /\ [][Next]_vars

(***************************************************************************)
(* What the claims about the pipeline speak of                             *)
(***************************************************************************)
Range(s) == {s[i] : i \in DOMAIN s}

\* run_agent_pipeline has returned its report in the job of worker w
Merged(w) == analysis[w] # NoAnalysis

\* the fields of the report that come from the stage
ReportPart(report, agent_name) ==
    CASE agent_name = "repo_scanner" ->
            <<report.summary, report.changelog, report.complexity_flags>>
      [] agent_name = "risk_security" ->
            <<report.risk_score, report.risk_factors, report.secrets_detected,
              report.dependency_changes>>
      [] agent_name = "test_synthesizer" -> <<report.test_suggestions>>
      [] agent_name = "reviewer" -> <<report.review_checklist>>

\* every text the report carries
ReportTexts(report) ==
    {report.summary}
    \cup Range(report.complexity_flags)
    \cup Range(report.risk_factors)
    \cup UNION {Range(report.changelog[k]) : k \in DOMAIN report.changelog}
    \cup {report.test_suggestions[i].description : i \in DOMAIN report.test_suggestions}
    \cup {report.review_checklist[i].text : i \in DOMAIN report.review_checklist}

\* the comments of the pull request that carry the marker
MarkerComments == {i \in 1..Len(comments) : Contains(comments[i].body, bot_marker)}

(***************************************************************************)
(* C2: in every run of run_agent_pipeline in which a stage raises          *)
(* internally (also while analysing a malformed dependency manifest), the  *)
(* other stages still run and their normally computed outputs appear in    *)
(* the report, and the failing stage's result carries exactly one warning. *)
(***************************************************************************)
C2_StageFailureIsolated ==
    \A w \in Workers :
        Merged(w) =>
            /\ \A a \in raised[w] : Len(agent_results[w][a].warnings) = 1
            /\ \A b \in Range(agents) \ raised[w] :
                /\ b \in Range(calls[w])
                /\ ReportPart(analysis[w], b)
                   = ReportPart(PRAnalysis(pr_context[w],
                                           [k \in Range(agents) |->
                                               agent_run(k, pr_context[w], NoFault)],
                                           agent_times[w]), b)

C4_ContextFailureAborts ==
    /\ [](\A w \in Workers :
            failed_in[w] = "build_context" =>
                /\ pc[w] = "failed"
                /\ propagated[w]
                /\ calls[w] = <<>>
                /\ ~Merged(w)
                /\ returned[w] = NoResult)
    /\ [][\A w \in Workers :
            failed_in'[w] = "build_context" /\ failed_in[w] # "build_context" =>
                /\ pc[w] = "build_context"
                /\ comments' = comments]_vars

C4_Witness ==
    /\ failed_in[1] = "build_context"
    /\ propagated[1]
    /\ pr_data[1].installation_id # None

(***************************************************************************)
(* C5: if publishing the comment fails, the failure is propagated to the   *)
(* caller and the report the stages computed is still returned or logged.  *)
(***************************************************************************)
C5_PublishFailureKeepsReport ==
    \A w \in Workers :
        failed_in[w] = "publish" =>
            /\ propagated[w]
            /\ \/ returned[w] # NoResult /\ returned[w].analysis = analysis[w]
               \/ \E i \in 1..Len(log[w]) :
                    /\ "analysis" \in DOMAIN log[w][i]
                    /\ log[w][i].analysis = analysis[w]

(***************************************************************************)
(* C6: every warning string a stage emitted during a run is present in     *)
(* the report run_agent_pipeline returns.                                  *)
(***************************************************************************)
C6_WarningsInReport ==
    \A w \in Workers :
        Merged(w) =>
            \A a \in DOMAIN agent_results[w] :
                Range(agent_results[w][a].warnings) \subseteq
                    (ReportTexts(analysis[w])
                     \cup (IF "warnings" \in DOMAIN analysis[w]
                           THEN Range(analysis[w].warnings) ELSE {}))

\* the score of the run of the change set in which no stage meets a fault
WarningFreeScore(ctx) == risk_security_run(ctx, NoFault).payload.risk_score

(***************************************************************************)
(* C7: for a fixed change set the risk score of the report is the same     *)
(* whether or not any stage, the Risk & Security stage included, emitted   *)
(* a warning.                                                              *)
(***************************************************************************)
C7_ScoreIgnoresAllWarnings ==
    \A w \in Workers :
        Merged(w) => analysis[w].risk_score = WarningFreeScore(pr_context[w])

(***************************************************************************)
(* C7, amended: the risk score of the report is the same whether or not    *)
(* the repo_scanner, test_synthesizer or reviewer stage emitted a warning; *)
(* when the Risk & Security stage itself emitted one, the report carries   *)
(* that stage's fallback score min(100, 5 * files + additions // 100).     *)
(***************************************************************************)
C7_ScoreIgnoresOtherWarnings ==
    \A w \in Workers :
        Merged(w) =>
            analysis[w].risk_score =
                IF agent_results[w]["risk_security"].warnings # <<>>
                THEN Min(100, 5 * Len(pr_context[w].files)
                              + (TotalAdditions(pr_context[w]) \div 100))
                ELSE WarningFreeScore(pr_context[w])

C7_Witness ==
    /\ Merged(1)
    /\ agent_results[1]["repo_scanner"].warnings # <<>>
    /\ agent_results[1]["reviewer"].warnings # <<>>
    /\ agent_results[1]["risk_security"].warnings = <<>>
    /\ analysis[1].risk_score = 25

(***************************************************************************)
(* C8: every run of run_agent_pipeline executes the four stages once each, *)
(* in the order repo_scanner, risk_security, test_synthesizer, reviewer,   *)
(* and when merging starts agent_times_ms has an entry under each of the   *)
(* four names, whether the stage succeeded or failed internally.           *)
(***************************************************************************)
C8_StagesOnceInOrder ==
    \A w \in Workers :
        /\ calls[w] = SubSeq(agents, 1, Len(calls[w]))
        /\ pc[w] = "run_stages" => Len(calls[w]) < Len(agents)
        /\ (pc[w] = "merge" \/ Merged(w)) =>
                /\ calls[w] = agents
                /\ DOMAIN agent_times[w] = Range(agents)
                /\ DOMAIN agent_results[w] = Range(agents)

C8_Witness ==
    /\ pc[1] = "merge"
    /\ raised[1] = {"repo_scanner", "test_synthesizer"}
    /\ DOMAIN agent_times[1] = Range(agents)

(***************************************************************************)
(* C9: a run of run_pr_analysis moves through build-context, run-stages,   *)
(* merge, publish, done in that order; publishing happens only after the   *)
(* four stages completed and were merged; a result with status completed   *)
(* and comment_posted true is returned only after the publish call         *)
(* succeeded; a failure ends the run as failed with no later phase.        *)
(***************************************************************************)
PhaseSteps ==
    { <<"idle", "build_context">>, <<"build_context", "run_stages">>,
      <<"run_stages", "merge">>, <<"merge", "publish">>,
      <<"publish", "write_comment">>, <<"write_comment", "done">>,
      <<"build_context", "failed">>, <<"publish", "failed">>,
      <<"write_comment", "failed">>,
      <<"done", "build_context">>, <<"failed", "build_context">> }

C9_PhaseOrder ==
    /\ [][\A w \in Workers :
            /\ pc'[w] # pc[w] => <<pc[w], pc'[w]>> \in PhaseSteps
            /\ pc'[w] = "done" /\ pc[w] # "done" =>
                  \E i \in 1..Len(comments') :
                     /\ comments'[i].body = build_comment(analysis[w])
                     /\ i > Len(comments) \/ comments[i] = existing[w]
            /\ pc[w] = "failed" /\ pc'[w] = "failed" =>
                  /\ calls'[w] = calls[w]
                  /\ analysis'[w] = analysis[w]
                  /\ returned'[w] = returned[w]]_vars
    /\ [](\A w \in Workers :
            /\ pc[w] \in {"publish", "write_comment", "done"} =>
                  calls[w] = agents /\ Merged(w)
            /\ returned[w] # NoResult =>
                  /\ pc[w] = "done"
                  /\ returned[w].status = "completed"
                  /\ returned[w].comment_posted
                  /\ returned[w].analysis = analysis[w]
            /\ pc[w] = "done" => returned[w] # NoResult /\ ~propagated[w]
            /\ pc[w] = "failed" => returned[w] = NoResult /\ propagated[w])

C9_Witness ==
    /\ pc[1] = "done"
    /\ returned[1].status = "completed"
    /\ returned[1].comment_posted
    /\ Cardinality(MarkerComments) = 1

(***************************************************************************)
(* C11: in scan_content and in scan_diff a line that contains one of the   *)
(* placeholder markers, compared without regard to case (the upper-case    *)
(* markers YOUR_API_KEY, INSERT_KEY_HERE and REPLACE_WITH included), is    *)
(* skipped before pattern matching and yields no finding.                  *)
(***************************************************************************)
HasMarker(line) ==
    \E marker \in safe_markers : Contains(ToLower(line), ToLower(marker))

C11_MarkerLinesSkipped ==
    scanPc = "scanned" =>
        ((\A line \in Range(Split(scanText, "\n")) : HasMarker(line))
            => detections = <<>>)

(***************************************************************************)
(* Specification of the dependency scanner: one call of                    *)
(* analyze_dependency_file on a manifest of the pull request, or one call  *)
(* of _determine_version_change_type on two version strings                *)
(***************************************************************************)
MaxManifestLines == 2  \* most lines of the patch of a dependency manifest

ManifestLinePool ==
    { "@@ -1,2 +1,2 @@",
      "+cryptography==41.0.0",
      "+cryptography==42.0.0",
      "-cryptography==40.0.0",
      "-requests==2.9.0",
      "+requests>=2.10.0",
      "+  \"lodash\": \"4.17.21\",",
      "-  \"lodash\": \"4.17.20\",",
      "+boto3 = \"1.28.0\"",
      "+require github.com/gin-gonic/gin v1.9.1" }

ManifestPatches ==
    UNION { {JoinLines(ls) : ls \in [1..n -> ManifestLinePool]} : n \in 1..MaxManifestLines }

ManifestNames ==
    { "requirements.txt", "deploy/requirements-dev.txt", "package.json", "Pipfile",
      "go.mod", "constraints.txt", "PACKAGE.JSON", "Gemfile" }

VersionPool ==
    { "1.9.0", "1.10.0", "1.0", "1.0.0", "2", "0.9.12", "10.0", "1.9", "2.0.0",
      "1.0.1rc1", "latest" }

\* the PRContext of a pull request that changes the manifest by the patch
ManifestContext(filename, patch) ==
    [files |-> <<PRFileModel(filename, "modified", 1, 1, 2, patch)>>]

DepsInit ==
    /\ ScorerIdle
    /\ ScanIdle
    /\ PipelineIdle
    /\ CallIdle

AnalyzeDependencyFile ==
    /\ callName = "none"
    /\ \E filename \in ManifestNames, patch \in ManifestPatches :
         /\ callArgs' = [filename |-> filename, patch |-> patch]
         /\ callResult' = <<analyze_dependency_file(filename, "",
                                                    ManifestContext(filename, patch))>>
    /\ callName' = "analyze_dependency_file"
    /\ UNCHANGED <<objects, scorerVars, scanVars, pipelineVars>>

DetermineVersionChangeType ==
    /\ callName = "none"
    /\ \E old_version \in VersionPool, new_version \in VersionPool :
         /\ callArgs' = [old_version |-> old_version, new_version |-> new_version]
         /\ callResult' = <<determine_version_change_type(old_version, new_version)>>
    /\ callName' = "determine_version_change_type"
    /\ UNCHANGED <<objects, scorerVars, scanVars, pipelineVars>>

PackagePool ==
    { "cryptography", "requests", "Django", "pycryptodome", "authlib", "pyopenssl",
      "python-jwt", "requests-oauthlib", "boto3", "left-pad" }

ChangeTypes == {"added", "removed", "upgraded", "downgraded", "modified"}

AssessPackageRisk ==
    /\ callName = "none"
    /\ \E package \in PackagePool, change_type \in ChangeTypes :
         /\ callArgs' = [package |-> package, change_type |-> change_type]
         /\ callResult' = <<assess_package_risk(package, change_type)>>
    /\ callName' = "assess_package_risk"
    /\ UNCHANGED <<objects, scorerVars, scanVars, pipelineVars>>

DepsNext == AnalyzeDependencyFile \/ DetermineVersionChangeType \/ AssessPackageRisk

SpecDeps == DepsInit /\ [][DepsNext]_vars

(***************************************************************************)
(* C12: dependency analysis of a requirements file whose patch contains    *)
(* the added line +cryptography==41.0.0 and no removed line for that       *)
(* package returns a change for cryptography with change type added, new   *)
(* version 41.0.0, no old version and risk high.                           *)
(***************************************************************************)
C12_Case ==
    /\ callName = "analyze_dependency_file"
    /\ EndsWith(callArgs.filename, "requirements.txt")
    /\ "+cryptography==41.0.0" \in Range(Split(callArgs.patch, "\n"))
    /\ \A line \in Range(Split(callArgs.patch, "\n")) :
          Contains(line, "cryptography") => line = "+cryptography==41.0.0"

IsDotted(version) == \A i \in DOMAIN Split(version, ".") : IsDigit(Split(version, ".")[i])

\* the version as one number: n components, each below 1000, missing ones 0
RECURSIVE VersionNumber(_, _, _)
VersionNumber(version, i, n) ==
    IF i > n THEN 0
    ELSE LET parts == Split(version, ".")
             part == IF i <= Len(parts) THEN ParseInt(parts[i]) ELSE 0
         IN  part * (1000 ^ (n - i)) + VersionNumber(version, i + 1, n)

C13_Case ==
    /\ callName = "determine_version_change_type"
    /\ IsDotted(callArgs.old_version)
    /\ IsDotted(callArgs.new_version)

C13_NumericComparison ==
    C13_Case =>
        LET n == Max(Len(Split(callArgs.old_version, ".")),
                     Len(Split(callArgs.new_version, ".")))
            old == VersionNumber(callArgs.old_version, 1, n)
            new == VersionNumber(callArgs.new_version, 1, n)
        IN  callResult[1] = IF new > old THEN "upgraded"
                            ELSE IF new < old THEN "downgraded"
                            ELSE "modified"

C13_Witness ==
    /\ C13_Case
    /\ callArgs.old_version = "1.9.0"
    /\ callArgs.new_version = "1.10.0"
    /\ callResult[1] = "upgraded"

(***************************************************************************)
(* C14: analyze_dependency_file never raises for a manifest filename that  *)
(* matches none of the four supported formats: it returns an empty list.   *)
(***************************************************************************)
C14_Case ==
    /\ callName = "analyze_dependency_file"
    /\ ~EndsWith(callArgs.filename, "requirements.txt")
    /\ ~EndsWith(callArgs.filename, "requirements-dev.txt")
    /\ callArgs.filename \notin {"package.json", "Pipfile", "pyproject.toml",
                                 "go.mod", "go.sum"}

C14_UnsupportedIsEmpty == C14_Case => callResult = << <<>> >>

C14_Witness ==
    /\ C14_Case
    /\ callArgs.filename = "constraints.txt"
    /\ callArgs.patch = "+cryptography==41.0.0"
    /\ callResult[1] = <<>>

(***************************************************************************)
(* Specification of the diff parser: a raw diff is parsed, then parsed     *)
(* again by the same parser or by a second one.  The diff is held as the   *)
(* list of its lines, diff_content.split('\n').                            *)
(***************************************************************************)
MaxDiffSegments == 3  \* most segments (a line and its repetitions) of a raw diff

DiffSegmentPool ==
    { <<"diff --git a/app.go b/app.go", 1>>,
      <<"diff --git a/README.md b/README.md", 1>>,
      <<"+++ b/app.go", 1>>,
      <<"@@ -1,3 +1,6 @@", 1>>,
      <<"+func Login(w http.ResponseWriter) {", 1>>,
      <<"-func Logout() {", 1>>,
      <<"+\tx := 1", 101>>,
      <<"--- see the wiki", 1>>,
      <<"diff --git a/test.py b/test.py", 1>>,
      <<"+def new_function():", 1>> }

\* the lines of a diff made of the segments
DiffLines(segments) ==
    Flatten([k \in 1..Len(segments) |-> [i \in 1..segments[k][2] |-> segments[k][1]]])

DiffInputs ==
    UNION { {DiffLines(segs) : segs \in [1..n -> DiffSegmentPool]} : n \in 1..MaxDiffSegments }

Parsers == {1, 2}

DiffInit ==
    /\ ScorerIdle
    /\ ScanIdle
    /\ PipelineIdle
    /\ callName = "none"
    /\ callArgs = <<>>
    /\ callResult = <<>>
    /\ objects = [p \in Parsers |-> DiffParser]

\* parser p parses the lines
Parsed(p, lines) ==
    \E r \in {parse_diff(objects[p], lines)} :
        /\ objects' = [objects EXCEPT ![p] = r.self]
        /\ callResult' = Append(callResult, r.value)

ParseDiff ==
    /\ callName = "none"
    /\ \E lines \in DiffInputs :
         /\ callArgs' = lines
         /\ Parsed(1, lines)
    /\ callName' = "parse_diff"
    /\ UNCHANGED <<scorerVars, scanVars, pipelineVars>>

ParseDiffAgain ==
    /\ callName = "parse_diff"
    /\ Len(callResult) = 1
    /\ \E p \in Parsers : Parsed(p, callArgs)
    /\ UNCHANGED <<callName, callArgs>>
    /\ UNCHANGED <<scorerVars, scanVars, pipelineVars>>

MaxHotspotFiles == 3  \* most files of a list given to _identify_hotspots

\* files as parse_diff leaves them: name, additions, deletions and the number
\* of functions recorded
HotspotFilePool ==
    { [filename |-> "m.go", additions |-> 100, deletions |-> 0, functions |-> 2],
      [filename |-> "m.go", additions |-> 100, deletions |-> 1, functions |-> 0],
      [filename |-> "n.go", additions |-> 100, deletions |-> 0, functions |-> 6],
      [filename |-> "n.go", additions |-> 51, deletions |-> 50, functions |-> 3],
      [filename |-> "m.go", additions |-> 1, deletions |-> 100, functions |-> 6],
      [filename |-> "n.go", additions |-> 200, deletions |-> 0, functions |-> 5],
      [filename |-> "m.go", additions |-> 200, deletions |-> 1, functions |-> 0],
      [filename |-> "n.go", additions |-> 201, deletions |-> 0, functions |-> 6],
      [filename |-> "m.go", additions |-> 50, deletions |-> 0, functions |-> 3],
      [filename |-> "README.md", additions |-> 200, deletions |-> 0, functions |-> 0],
      [filename |-> "README.md", additions |-> 101, deletions |-> 100, functions |-> 0],
      [filename |-> "NOTES.md", additions |-> 0, deletions |-> 201, functions |-> 0] }

\* the file dict of parse_diff for a file of the pool
FileInfo(f) ==
    [filename |-> f.filename, additions |-> f.additions, deletions |-> f.deletions,
     functions_changed |-> [i \in 1..f.functions |->
                              [name |-> "F" \o ToString(i), change_type |-> "added",
                               line |-> "func F" \o ToString(i) \o "() {"]],
     large_changes |-> f.additions + f.deletions > 100]

HotspotInputs ==
    UNION { [1..n -> {FileInfo(f) : f \in HotspotFilePool}] : n \in 1..MaxHotspotFiles }

\* _identify_hotspots is applied to a list of files
IdentifyHotspots ==
    /\ callName = "none"
    /\ \E files_changed \in HotspotInputs :
         /\ callArgs' = files_changed
         /\ callResult' = <<identify_hotspots(files_changed)>>
    /\ callName' = "identify_hotspots"
    /\ UNCHANGED <<objects, scorerVars, scanVars, pipelineVars>>

DiffNext == ParseDiff \/ ParseDiffAgain \/ IdentifyHotspots

SpecDiff == DiffInit /\ [][DiffNext]_vars

MaxChecklistItems == 3  \* most items the seven sub-analyses generate together

\* the order of the extend calls in run(), with the severities each analysis
\* gives its items
SubAnalyses ==
    << [category |-> "Code Quality", severities |-> {"high", "medium", "low"}],
       [category |-> "Security", severities |-> {"high", "medium"}],
       [category |-> "Performance", severities |-> {"medium", "low"}],
       [category |-> "Maintainability", severities |-> {"medium", "low"}],
       [category |-> "Testing", severities |-> {"high", "medium", "low"}],
       [category |-> "Documentation", severities |-> {"medium", "low"}],
       [category |-> "Breaking Changes", severities |-> {"high", "medium"}] >>

ItemKinds ==
    UNION { {<<a, s>> : s \in SubAnalyses[a].severities} : a \in DOMAIN SubAnalyses }

\* the lists checklist_items can hold before the sort: item i is told apart by
\* its text
GeneratedChecklists ==
    UNION { { [i \in 1..n |-> ReviewChecklistItem(SubAnalyses[kinds[i][1]].category,
                                                  "item " \o ToString(i), kinds[i][2])] :
                kinds \in {k \in [1..n -> ItemKinds] :
                              \A i \in 1..(n - 1) : k[i][1] <= k[i + 1][1]} } :
            n \in 0..MaxChecklistItems }

\* x put behind every item of the sorted list whose key is not greater; the
\* key of an item is order[item.severity]
InsertByKey(sorted, x, order) ==
    LET before == {i \in 0..Len(sorted) :
                      \A j \in 1..i : order[sorted[j].severity] <= order[x.severity]}
        at == CHOOSE i \in before : \A j \in before : j <= i
    IN  SubSeq(sorted, 1, at) \o <<x>> \o SubSeq(sorted, at + 1, Len(sorted))

\* list.sort(key=lambda x: order[x.severity]): a stable sort
RECURSIVE SortedByKey(_, _)
SortedByKey(items, order) ==
    IF items = <<>> THEN <<>>
    ELSE InsertByKey(SortedByKey(SubSeq(items, 1, Len(items) - 1), order),
                     items[Len(items)], order)

\* mutant: the items are sorted by the name of their severity
sort_checklist_by_name(checklist_items) ==
    SortedByKey(checklist_items, [high |-> 0, low |-> 1, medium |-> 2])

\* checklist_items.sort(key=lambda x: {'high': 0, 'medium': 1, 'low': 2}[x.severity])
sort_checklist(checklist_items) ==
    SortedByKey(checklist_items, [high |-> 0, medium |-> 1, low |-> 2])

ReviewerInit ==
    /\ ScorerIdle
    /\ ScanIdle
    /\ PipelineIdle
    /\ CallIdle

\* the try branch of ReviewerAgent.run from the sort on
SortChecklist ==
    /\ callName = "none"
    /\ \E checklist_items \in GeneratedChecklists :
         /\ callArgs' = checklist_items
         /\ callResult' = <<sort_checklist(checklist_items)>>
    /\ callName' = "reviewer_run"
    /\ UNCHANGED <<objects, scorerVars, scanVars, pipelineVars>>

ReviewerNext == SortChecklist

SpecReviewer == ReviewerInit /\ [][ReviewerNext]_vars

(***************************************************************************)
(* C16: the review_checklist produced by ReviewerAgent.run is ordered with *)
(* every high item before every medium item before every low item, and    *)
(* items of equal severity keep the order in which the sub-analyses        *)
(* generated them.                                                         *)
(***************************************************************************)
\* the place of the item in the generated list
GeneratedAt(item) == CHOOSE i \in DOMAIN callArgs : callArgs[i] = item

C16_SortedBySeverity ==
    callName = "reviewer_run" =>
        LET review_checklist == callResult[1]
            Rank(s) == CASE s = "high" -> 1 [] s = "medium" -> 2 [] s = "low" -> 3
        IN  /\ Len(review_checklist) = Len(callArgs)
            /\ Range(review_checklist) = Range(callArgs)
            /\ \A i, j \in DOMAIN review_checklist :
                 i < j =>
                    /\ Rank(review_checklist[i].severity)
                         <= Rank(review_checklist[j].severity)
                    /\ review_checklist[i].severity = review_checklist[j].severity
                         => GeneratedAt(review_checklist[i])
                              < GeneratedAt(review_checklist[j])

C16_Witness ==
    /\ callName = "reviewer_run"
    /\ Len(callArgs) = 3
    /\ callArgs[1].severity = "low"
    /\ callArgs[2].severity = "high"
    /\ callArgs[3].severity = "low"
    /\ callResult[1] = <<callArgs[2], callArgs[1], callArgs[3]>>

(***************************************************************************)
(* agents/test_synthesizer.py: the suggestions of the functions of a patch *)
(* and what run() does with the collected list                             *)
(***************************************************************************)
TestSuggestion(target_file, function_name, test_type, description, rationale, sample_stub) ==
    [target_file |-> target_file, function_name |-> function_name,
     test_type |-> test_type, description |-> description,
     rationale |-> rationale, sample_stub |-> sample_stub]

numeric_hints == {"int", "float", "number", "count", "size", "length", "index"}
string_hints == {"str", "string", "text", "name", "message", "path"}
collection_hints == {"list", "array", "dict", "map", "set", "collection"}

\* TestSynthesizerAgent._generate_function_test_suggestions
generate_function_test_suggestions(filename, function_name, change_type, function_line) ==
    <<TestSuggestion(filename, function_name, "positive",
          "Test " \o function_name \o " with valid inputs",
          "Ensure function works correctly with expected inputs",
          "test_" \o function_name \o "_valid_input()"),
      TestSuggestion(filename, function_name, "negative",
          "Test " \o function_name \o " with invalid inputs",
          "Verify proper error handling for invalid inputs",
          "test_" \o function_name \o "_invalid_input()")>>
    \o (IF ContainsAny(ToLower(function_line), numeric_hints)
        THEN <<TestSuggestion(filename, function_name, "boundary",
                  "Test " \o function_name \o " with boundary values",
                  "Numeric parameters should be tested with min/max/zero values",
                  "test_" \o function_name \o "_boundary_values()")>>
        ELSE <<>>)
    \o (IF ContainsAny(ToLower(function_line), string_hints)
        THEN <<TestSuggestion(filename, function_name, "boundary",
                  "Test " \o function_name \o " with empty/null strings",
                  "String parameters should be tested with empty and null values",
                  "test_" \o function_name \o "_empty_strings()")>>
        ELSE <<>>)
    \o (IF ContainsAny(ToLower(function_line), collection_hints)
        THEN <<TestSuggestion(filename, function_name, "boundary",
                  "Test " \o function_name \o " with empty collections",
                  "Collection parameters should be tested with empty lists/arrays",
                  "test_" \o function_name \o "_empty_collections()")>>
        ELSE <<>>)

\* the key of _deduplicate_suggestions
SuggestionKey(suggestion) ==
    <<suggestion.target_file, suggestion.function_name, suggestion.test_type,
      suggestion.description>>

\* one pass of the loop of _deduplicate_suggestions
DeduplicateStep(suggestion, st) ==
    IF SuggestionKey(suggestion) \notin st.seen
    THEN [seen |-> st.seen \cup {SuggestionKey(suggestion)},
          unique_suggestions |-> Append(st.unique_suggestions, suggestion)]
    ELSE st

\* the loop of _deduplicate_suggestions over suggestions[lo..hi]
RECURSIVE DeduplicateLoop(_, _, _, _)
DeduplicateLoop(suggestions, lo, hi, st) ==
    IF lo > hi THEN st
    ELSE IF lo = hi THEN DeduplicateStep(suggestions[lo], st)
    ELSE CHOOSE r \in {DeduplicateLoop(suggestions, ((lo + hi) \div 2) + 1, hi, half) :
                          half \in {DeduplicateLoop(suggestions, lo, (lo + hi) \div 2, st)}} : TRUE

\* TestSynthesizerAgent._deduplicate_suggestions
deduplicate_suggestions(suggestions) ==
    DeduplicateLoop(suggestions, 1, Len(suggestions),
                    [seen |-> {}, unique_suggestions |-> <<>>]).unique_suggestions

SuggestionLimit == 20

\* mutant: the list is cut to its limit before the duplicates are removed
limit_suggestions_cut_first(test_suggestions) ==
    deduplicate_suggestions(
        SubSeq(test_suggestions, 1, Min(SuggestionLimit, Len(test_suggestions))))

\* run(): test_suggestions = self._deduplicate_suggestions(test_suggestions)
\*        test_suggestions = test_suggestions[:20]
limit_suggestions(test_suggestions) ==
    CHOOSE r \in {SubSeq(unique_suggestions, 1,
                         Min(SuggestionLimit, Len(unique_suggestions))) :
                    unique_suggestions \in {deduplicate_suggestions(test_suggestions)}} : TRUE

(***************************************************************************)
(* Specification of the de-duplication: the list run() has collected is    *)
(* made of the suggestions of functions found in patches.                  *)
(***************************************************************************)
MaxFunctionGroups == 3  \* most groups of functions the collected list is made of

\* a group: file, base of the function names, number of functions, parameters
\* on the definition line, change type
FunctionGroupPool ==
    { <<"auth/login.py", "login", 1, "user", "added">>,
      <<"auth/login.py", "login", 1, "username", "removed">>,
      <<"api/handlers.py", "handle", 2, "name, count", "added">>,
      <<"api/handlers.py", "handle", 7, "count", "removed">>,
      <<"auth/login.py", "check", 10, "items", "added">> }

GroupFunctionName(group, i) ==
    IF group[3] = 1 THEN group[2] ELSE group[2] \o ToString(i)

GroupSuggestions(group) ==
    Flatten([i \in 1..group[3] |->
        generate_function_test_suggestions(group[1], GroupFunctionName(group, i),
            group[5],
            "def " \o GroupFunctionName(group, i) \o "(" \o group[4] \o "):")])

CollectedSuggestions ==
    UNION { {Flatten([k \in 1..n |-> GroupSuggestions(groups[k])]) :
                groups \in [1..n -> FunctionGroupPool]} :
            n \in 0..MaxFunctionGroups }

SynthInit ==
    /\ ScorerIdle
    /\ ScanIdle
    /\ PipelineIdle
    /\ CallIdle

\* the two statements of run() between the loop over the files and the payload
LimitSuggestions ==
    /\ callName = "none"
    /\ \E test_suggestions \in CollectedSuggestions :
         /\ callArgs' = test_suggestions
         /\ callResult' = <<limit_suggestions(test_suggestions)>>
    /\ callName' = "test_synthesizer_run"
    /\ UNCHANGED <<objects, scorerVars, scanVars, pipelineVars>>

SynthNext == LimitSuggestions

SpecSynth == SynthInit /\ [][SynthNext]_vars

(***************************************************************************)
(* C17: the test_suggestions list returned by TestSynthesizerAgent.run     *)
(* never contains two entries with the same (target file, function name,   *)
(* test kind, description), never has more than 20 entries, and its        *)
(* entries are the first-seen occurrences in generation order (the first   *)
(* 20 distinct ones).                                                      *)
(***************************************************************************)
\* the places of the collected list where a key is seen for the first time
FirstSeen ==
    {i \in DOMAIN callArgs :
        \A j \in 1..(i - 1) : SuggestionKey(callArgs[j]) # SuggestionKey(callArgs[i])}

C17_SuggestionsDistinctAndLimited ==
    callName = "test_synthesizer_run" =>
        LET test_suggestions == callResult[1]
        IN  /\ \A i, j \in DOMAIN test_suggestions :
                 i # j => <<test_suggestions[i].target_file,
                            test_suggestions[i].function_name,
                            test_suggestions[i].test_type,
                            test_suggestions[i].description>>
                          # <<test_suggestions[j].target_file,
                              test_suggestions[j].function_name,
                              test_suggestions[j].test_type,
                              test_suggestions[j].description>>
            /\ Len(test_suggestions) <= 20
            /\ Len(test_suggestions) = Min(20, Cardinality(FirstSeen))
            /\ \A k \in DOMAIN test_suggestions :
                 \E i \in FirstSeen :
                    /\ Cardinality({j \in FirstSeen : j <= i}) = k
                    /\ test_suggestions[k] = callArgs[i]

\* duplicates among the first 20 collected suggestions and more than 20
\* distinct ones in all
C17_Witness ==
    /\ callName = "test_synthesizer_run"
    /\ Len(callResult[1]) = 20
    /\ Cardinality(FirstSeen) > 20
    /\ \E i \in 1..20 : i \notin FirstSeen
    /\ callResult[1][3].function_name # callArgs[3].function_name

\* a run of the pipeline for the change set with the single added file
\* auth/login.py has merged its report
LoginMerged(w) ==
    /\ Merged(w)
    /\ pr_context[w].head_sha = PrLogin.head_sha

(***************************************************************************)
(* C18: end-to-end, for a change set with the single added file            *)
(* auth/login.py (+120/-0, patch with a `def login(` line and no           *)
(* secret-pattern match), the risk score in the report includes the        *)
(* security-sensitive-file bonus (+10) and does not include the secrets    *)
(* bonus (+25).                                                            *)
(***************************************************************************)
C18_LoginScoreHasSecurityBonus ==
    \A w \in Workers :
        (LoginMerged(w) /\ agent_results[w]["risk_security"].warnings = <<>>) =>
            analysis[w].risk_score = base_score + 10

(***************************************************************************)
(* C19: end-to-end, for a change set with the single added file            *)
(* auth/login.py (status added, patch with a `def login(` line), the       *)
(* report's test suggestions contain at least one suggestion whose         *)
(* function name is login.                                                 *)
(***************************************************************************)
C19_LoginHasTestSuggestion ==
    \A w \in Workers :
        LoginMerged(w) =>
            \E i \in DOMAIN analysis[w].test_suggestions :
                analysis[w].test_suggestions[i].function_name = "login"

(***************************************************************************)
(* C20: end-to-end, for a change set with the single added file            *)
(* auth/login.py (status added), the changelog in the report contains at   *)
(* least one entry in the features bucket, and the Change Scanner stage    *)
(* completes without falling back to its error payload.                    *)
(***************************************************************************)
C20_LoginChangelogHasFeature ==
    \A w \in Workers :
        (LoginMerged(w)
         /\ agent_results[w]["repo_scanner"].warnings
              # <<"Error during repository scanning: " \o ErrorText("parse_diff")>>) =>
            /\ "features" \in DOMAIN analysis[w].changelog
            /\ analysis[w].changelog["features"] # <<>>
            /\ agent_results[w]["repo_scanner"].warnings = <<>>
            /\ analysis[w].summary # "Error occurred during analysis"

(***************************************************************************)
(* C21: in scan_diff the destination line counter follows the hunk         *)
(* protocol: a hunk header `@@ -a,b +c,d @@` resets it to c-1, every       *)
(* following context line and every added line increments it by one, a     *)
(* deleted line leaves it unchanged, and every added line of a hunk (every *)
(* hunk-body line whose first character is `+`, whatever its content) is   *)
(* scanned, so each finding's line number is the 1-based destination line  *)
(* of the added line that produced it.                                     *)
(***************************************************************************)
\* a patch as GitHub serves it for a file: a hunk header, then header, context,
\* added, deleted and "\ No newline at end of file" lines
HunkPatch(lines) ==
    /\ Len(lines) >= 1
    /\ StartsWith(lines[1], "@@ -")
    /\ \A i \in DOMAIN lines :
         \/ StartsWith(lines[i], "@@ -")
         \/ lines[i] # "" /\ Ch(lines[i], 1) \in {" ", "+", "-", "\\"}

\* c of the header `@@ -a,b +c,d @@`
HunkStart(header) == ParseInt(Tail(Split(Split(header, " ")[3], ",")[1]))

\* the destination line counter of the hunk protocol after lines[1..i]
RECURSIVE DestinationLine(_, _)
DestinationLine(lines, i) ==
    IF i = 0 THEN 0
    ELSE IF StartsWith(lines[i], "@@ -") THEN HunkStart(lines[i]) - 1
    ELSE IF Ch(lines[i], 1) \in {" ", "+"} THEN DestinationLine(lines, i - 1) + 1
    ELSE DestinationLine(lines, i - 1)

\* the findings of the added lines of the patch, each at its destination line
ProtocolFindings(lines, filename) ==
    Flatten([i \in DOMAIN lines |->
        IF Ch(lines[i], 1) = "+" /\ ~is_safe_line(Tail(lines[i]), filename)
        THEN LineDetections(1, Tail(lines[i]), filename, DestinationLine(lines, i))
        ELSE <<>>])

C21_LineCounterFollowsHunks ==
    (scanPc = "scanned" /\ scanMode = "diff" /\ HunkPatch(Split(scanText, "\n"))) =>
        detections = ProtocolFindings(Split(scanText, "\n"), scanFile)

(***************************************************************************)
(* C22: in the pipeline, whenever the dependency analysis of a change set  *)
(* yields at least one change with risk level high, the risk score         *)
(* computed by the Risk & Security stage includes the +15                  *)
(* high-risk-dependency bonus (the score is 15 higher, before clamping,    *)
(* than for the same change set without that dependency change).           *)
(***************************************************************************)
C22_HighRiskDependencyBonus ==
    \A w \in Workers :
        ("risk_security" \in DOMAIN agent_results[w]
         /\ agent_results[w]["risk_security"].warnings = <<>>) =>
            LET payload == agent_results[w]["risk_security"].payload
                without == risk_factors_input(pr_context[w], payload.secrets_detected, <<>>)
            IN  (\E i \in DOMAIN payload.dependency_changes :
                    payload.dependency_changes[i].risk_level = "high")
                => payload.risk_score = Min(max_score, Max(0, RawScore(without) + 15))

(***************************************************************************)
(* C23: for each of the four manifest handlers (requirements list,         *)
(* package.json, Pipfile/pyproject.toml, go.mod), a package that appears   *)
(* in both a removed line and an added line of the patch is reported once  *)
(* as a version change (upgraded, downgraded or modified) with both old    *)
(* and new version, a package only in added lines is reported as added,    *)
(* and a package only in removed lines is reported as removed.             *)
(***************************************************************************)
\* the packages the lines of ManifestLinePool name
PoolPackages == {"cryptography", "requests", "lodash", "boto3", "github.com/gin-gonic/gin"}

\* the line is written in the format of the manifest
InFormatOf(filename, line) ==
    IF EndsWith(filename, "requirements.txt") \/ EndsWith(filename, "requirements-dev.txt")
    THEN Contains(line, "==") \/ Contains(line, ">=")
    ELSE IF filename = "package.json" THEN Contains(line, "\": \"")
    ELSE IF filename \in {"Pipfile", "pyproject.toml"} THEN Contains(line, " = \"")
    ELSE IF filename \in {"go.mod", "go.sum"} THEN Contains(line, "require ")
    ELSE FALSE

\* a line of the patch with the given first character names the package
Names(sign, package) ==
    \E line \in Range(Split(callArgs.patch, "\n")) :
        /\ StartsWith(line, sign)
        /\ InFormatOf(callArgs.filename, line)
        /\ Contains(line, package)

C23_AddedAndRemovedLinesCompared ==
    callName = "analyze_dependency_file" =>
        \A package \in PoolPackages :
            LET changes == {i \in DOMAIN callResult[1] : callResult[1][i].package = package}
            IN  /\ (Names("+", package) /\ Names("-", package)) =>
                     /\ Cardinality(changes) = 1
                     /\ \A i \in changes :
                          /\ callResult[1][i].change_type
                               \in {"upgraded", "downgraded", "modified"}
                          /\ callResult[1][i].old_version # None
                          /\ callResult[1][i].new_version # None
                /\ (Names("+", package) /\ ~Names("-", package)) =>
                     /\ changes # {}
                     /\ \A i \in changes : callResult[1][i].change_type = "added"
                /\ (Names("-", package) /\ ~Names("+", package)) =>
                     /\ changes # {}
                     /\ \A i \in changes : callResult[1][i].change_type = "removed"

(***************************************************************************)
(* C24: _assess_package_risk classifies by a fixed cascade: high when the  *)
(* package name is one of the fixed high-risk package names; otherwise     *)
(* medium when the name contains one of the keywords auth, crypto, ssl,    *)
(* tls, jwt, oauth, security; otherwise medium when the change-type is     *)
(* downgraded; otherwise low.  In particular a package that is not itself  *)
(* in the high-risk list but whose name contains a security keyword is     *)
(* classified medium.                                                      *)
(***************************************************************************)
C24_RiskCascade ==
    callName = "assess_package_risk" =>
        callResult[1] =
            IF ToLower(callArgs.package) \in high_risk_packages THEN "high"
            ELSE IF \E keyword \in {"auth", "crypto", "ssl", "tls", "jwt", "oauth",
                                     "security"} :
                       Contains(ToLower(callArgs.package), keyword)
            THEN "medium"
            ELSE IF callArgs.change_type = "downgraded" THEN "medium"
            ELSE "low"

(***************************************************************************)
(* C25: for every file in a parsed diff, parse_diff's additions equals the *)
(* number of that file's hunk-body lines beginning with `+` and deletions  *)
(* equals the number beginning with `-`, where only the `+++`/`---`        *)
(* file-header lines are excluded; lines are attributed to the file of the *)
(* most recent diff file header, and total_additions/total_deletions equal *)
(* the sums of the per-file counts.                                        *)
(***************************************************************************)
\* line i lies in the body of a hunk: a hunk header precedes it with no diff
\* file header in between (heads, hunks: the places of those headers)
InHunkBody(i, heads, hunks) ==
    /\ i \notin heads \cup hunks
    /\ \E h \in hunks : h < i /\ \A d \in heads : d < h \/ d > i

\* the hunk-body lines of the k-th file that begin with sign
FileLines(lines, k, sign, heads, hunks) ==
    {i \in DOMAIN lines :
        /\ Cardinality({d \in heads : d <= i}) = k
        /\ InHunkBody(i, heads, hunks)
        /\ StartsWith(lines[i], sign)}

\* the diff begins with a file header, and between a file header and the
\* first hunk of the file only `+++ ` and `--- ` lines begin with + or -
PlainDiff(lines, heads, hunks) ==
    /\ 1 \in heads
    /\ \A i \in DOMAIN lines :
         (~InHunkBody(i, heads, hunks) /\ i \notin heads \cup hunks) =>
            \/ StartsWith(lines[i], "+++ ") \/ StartsWith(lines[i], "--- ")
            \/ ~(StartsWith(lines[i], "+") \/ StartsWith(lines[i], "-"))

C25_CountsPerFile ==
    callName = "parse_diff" =>
        \A heads \in {{i \in DOMAIN callArgs : StartsWith(callArgs[i], "diff --git")}},
           hunks \in {{i \in DOMAIN callArgs : StartsWith(callArgs[i], "@@")}} :
            PlainDiff(callArgs, heads, hunks) =>
                LET files_changed == callResult[1].files_changed
                IN  /\ Len(files_changed) = Cardinality(heads)
                    /\ \A k \in DOMAIN files_changed :
                         /\ files_changed[k].additions
                              = Cardinality(FileLines(callArgs, k, "+", heads, hunks))
                         /\ files_changed[k].deletions
                              = Cardinality(FileLines(callArgs, k, "-", heads, hunks))
                    /\ callResult[1].total_additions
                         = SumSeq([k \in DOMAIN files_changed |-> files_changed[k].additions])
                    /\ callResult[1].total_deletions
                         = SumSeq([k \in DOMAIN files_changed |-> files_changed[k].deletions])

(***************************************************************************)
(* C26: for a file whose extension belongs to a supported language (py,    *)
(* js, java, go, rs, cpp, c), parse_diff records in functions_changed      *)
(* every function whose signature appears on an added or removed line of   *)
(* that file (for example an added `def new_function():` in test.py is     *)
(* recorded as added), with at most one entry per distinct function name   *)
(* per file.                                                               *)
(***************************************************************************)
\* the name of the function whose signature the text of a line of a file with
\* the extension is, or "": `def name(` in py files, `func name(` in go files
SignatureName(ext, text) ==
    LET keyword == IF ext = "py" THEN "def " ELSE IF ext = "go" THEN "func " ELSE ""
        paren == FirstIndex(text, "(", 1)
    IN  IF keyword # "" /\ StartsWith(text, keyword) /\ paren > Len(keyword) + 1
        THEN SubSeq(text, Len(keyword) + 1, paren - 1)
        ELSE ""

\* the added and removed lines of the k-th file
ChangedLines(lines, k, heads) ==
    {i \in DOMAIN lines :
        /\ Cardinality({d \in heads : d <= i}) = k
        /\ \/ StartsWith(lines[i], "+") /\ ~StartsWith(lines[i], "+++")
           \/ StartsWith(lines[i], "-") /\ ~StartsWith(lines[i], "---")}

C26_FunctionsRecorded ==
    callName = "parse_diff" =>
        \A heads \in {{i \in DOMAIN callArgs : StartsWith(callArgs[i], "diff --git")}} :
            LET files_changed == callResult[1].files_changed
            IN  \A k \in DOMAIN files_changed :
                    LET parts == Split(files_changed[k].filename, ".")
                        ext == parts[Len(parts)]
                        recorded == files_changed[k].functions_changed
                    IN  /\ \A i \in ChangedLines(callArgs, k, heads) :
                             SignatureName(ext, Tail(callArgs[i])) # "" =>
                                \E f \in DOMAIN recorded :
                                    recorded[f].name = SignatureName(ext, Tail(callArgs[i]))
                        /\ \A f, g \in DOMAIN recorded :
                             recorded[f].name = recorded[g].name => f = g

(***************************************************************************)
(* C27: _identify_hotspots scores each file as the sum of the              *)
(* total-changes bonus (>200: +3, else >100: +2), the                      *)
(* changed-function-count bonus (>5: +2, else >2: +1) and +1 for a         *)
(* core-logic extension; a file is reported exactly when its score is at   *)
(* least 3, and the reported hotspots are ordered by score descending,     *)
(* equal scores kept in original file order.                               *)
(***************************************************************************)
HotspotScore(file_info) ==
    LET total == file_info.additions + file_info.deletions
        count == Len(file_info.functions_changed)
        parts == Split(file_info.filename, ".")
    IN  (IF total > 200 THEN 3 ELSE IF total > 100 THEN 2 ELSE 0)
        + (IF count > 5 THEN 2 ELSE IF count > 2 THEN 1 ELSE 0)
        + (IF parts[Len(parts)] \in {"py", "js", "java", "go"} THEN 1 ELSE 0)

\* the place of the i-th file among the reported ones
HotspotRank(files_changed, i) ==
    1 + Cardinality({j \in DOMAIN files_changed :
            /\ HotspotScore(files_changed[j]) >= 3
            /\ \/ HotspotScore(files_changed[j]) > HotspotScore(files_changed[i])
               \/ /\ HotspotScore(files_changed[j]) = HotspotScore(files_changed[i])
                  /\ j < i})

C27_HotspotsScoredAndOrdered ==
    callName = "identify_hotspots" =>
        LET reported == {i \in DOMAIN callArgs : HotspotScore(callArgs[i]) >= 3}
            hotspots == callResult[1]
        IN  /\ Len(hotspots) = Cardinality(reported)
            /\ \A i \in reported :
                 /\ hotspots[HotspotRank(callArgs, i)].filename = callArgs[i].filename
                 /\ hotspots[HotspotRank(callArgs, i)].risk_score = HotspotScore(callArgs[i])
                 /\ hotspots[HotspotRank(callArgs, i)].total_changes
                        = callArgs[i].additions + callArgs[i].deletions

\* three reported files: two of equal score and different names keep their
\* order, behind a later file of higher score
C27_Witness ==
    /\ callName = "identify_hotspots"
    /\ Len(callArgs) = 3
    /\ Len(callResult[1]) = 3
    /\ HotspotScore(callArgs[1]) = HotspotScore(callArgs[2])
    /\ callArgs[1].filename # callArgs[2].filename
    /\ HotspotScore(callArgs[3]) > HotspotScore(callArgs[1])
    /\ callResult[1][1].filename = callArgs[3].filename
    /\ callResult[1][2].filename = callArgs[1].filename
    /\ callResult[1][3].filename = callArgs[2].filename

(***************************************************************************)
(* Specification of concurrent runs: the queue is served by NumWorkers     *)
(* worker processes, so the jobs of one pull request (an opened and a      *)
(* synchronize event) can run at the same time.  The steps up to the       *)
(* merged report touch only the run's own state and commute with every     *)
(* step of another run, so they are scheduled lowest worker first; the two *)
(* halves of post_pr_comment, which read and write the comments of the     *)
(* pull request, interleave freely.                                        *)
(***************************************************************************)
LocalPhases == {"idle", "build_context", "run_stages", "merge"}

\* the jobs in progress are for the same head commit: a webhook event that
\* GitHub delivers twice is enqueued twice
SameHead(data) ==
    \A v, w \in Workers :
        (data[v] # NoData /\ data[w] # NoData) => data[v].head_sha = data[w].head_sha

\* the steps of run_pr_analysis before post_pr_comment; each worker takes one
\* job, jobs taken one after another by one worker being those of Spec
LocalStep(w) ==
    \/ pc[w] = "idle" /\ StartRun(w) /\ SameHead(pr_data')
    \/ BuildContext(w)
    \/ BuildContextFails(w)
    \/ RunRepoScanner(w)
    \/ RunRiskSecurity(w)
    \/ RunTestSynthesizer(w)
    \/ RunReviewer(w)
    \/ Merge(w)

\* the requests of post_pr_comment
SharedStep(w) ==
    \/ FindExistingComment(w)
    \/ FindExistingCommentFails(w)
    \/ WriteComment(w)
    \/ WriteCommentFails(w)

ConcurrentNext ==
    \E w \in Workers :
        \/ SharedStep(w)
        \/ (\A v \in 1..(w - 1) : pc[v] \notin LocalPhases) /\ LocalStep(w)

SpecConcurrent == Init /\ [][ConcurrentNext]_vars

(***************************************************************************)
(* C28: when two pipeline runs for the same (repository, PR) execute       *)
(* concurrently, under every interleaving of their find-existing-comment   *)
(* and create/update calls the pull request still ends with at most one    *)
(* comment carrying the pipeline's marker.                                 *)
(***************************************************************************)
C28_ConcurrentRunsOneMarker ==
    (\A w \in Workers : pc[w] \in {"idle", "done", "failed"}) =>
        Cardinality(MarkerComments) <= 1

(***************************************************************************)
(* C29: the risk_score of every report returned by run_agent_pipeline is   *)
(* in [0,100] on every path, for non-negative file additions and           *)
(* deletions: when the Risk & Security stage succeeds, when it fails and   *)
(* uses its fallback score min(100, 5*files + additions/100), and when the *)
(* key is absent from its payload (default 0).                             *)
(***************************************************************************)
C29_ReportScoreBounded ==
    \A w \in Workers :
        /\ Merged(w) => analysis[w].risk_score \in 0..100
        /\ returned[w] # NoResult => returned[w].analysis.risk_score \in 0..100

\* the stage failed on the bundle, whose 12000 additions put the fallback sum
\* at 125
C29_Witness ==
    \E w \in Workers :
        /\ Merged(w)
        /\ "risk_security" \in raised[w]
        /\ 5 * analysis[w].total_files + (analysis[w].total_additions \div 100) > 100
        /\ analysis[w].risk_score = 100

(***************************************************************************)
(* C30: in the Risk & Security stage each secret occurrence in the change  *)
(* set produces at most one finding in secrets_detected: a line added to a *)
(* dependency manifest that is both a changed file with a patch and an     *)
(* entry of dependency_files is not reported twice (once by the diff scan  *)
(* and once by the whole-content scan), so secrets_count is not inflated.  *)
(* No line of the pull requests holds two secrets, so no two findings of a *)
(* stage result may agree in file, line and pattern.                       *)
(***************************************************************************)
C30_NoDoubleFinding ==
    \A w \in Workers :
        ("risk_security" \in DOMAIN agent_results[w] /\ "risk_security" \notin raised[w]) =>
            LET payload == agent_results[w]["risk_security"].payload
                found == payload.secrets_detected
            IN  /\ \A i, j \in DOMAIN found :
                     (/\ found[i].filename = found[j].filename
                      /\ found[i].line_number = found[j].line_number
                      /\ found[i].pattern_type = found[j].pattern_type) => i = j
                /\ payload.security_analysis.secrets_count
                      = Cardinality({<<found[i].filename, found[i].line_number,
                                       found[i].pattern_type>> : i \in DOMAIN found})

====
